---- MODULE Spec2Model ----
(***************************************************************************)
(* Model of the portico demo server's session / occupancy manager          *)
(* (packages/portico-demo-server/src/data.ts).  The Redis store is the     *)
(* shared state; every Store operation is a call that runs on a pooled     *)
(* Redis connection and takes one step per awaited Redis command, so the   *)
(* commands of concurrent calls interleave.                                *)
(***************************************************************************)
EXTENDS Integers, FiniteSets, Sequences, TLC

\* ---------------------------------------------------------------- bounds
MaxConn == 2        \* connection ids uuid() mints in one behaviour
MaxSignal == 1      \* entries kept in the signal streams at one time
MaxExpire == 2      \* keys that reach their TTL in one behaviour
MaxClock == 2       \* milliseconds the store's clock passes through
MaxMessage == 2     \* room messages written by chat inputs and by other sockets
MaxOutage == 1      \* times the store becomes unreachable in one behaviour
MaxInput == 3       \* frames a client sends on one websocket
MaxRoom == 2        \* rooms createRoom is called for in one behaviour

\* ---------------------------------------------------------------- domains
Users == {"u1", "u2", "u3"}
Rooms == {"r1"}
\* the pooled Redis connections in use: two Store operations run at a time
Calls == {1, 2}
NoCall == 3
ConnIds == 1..MaxConn
Signals == {"ice", "sdp"}
\* the websocket accepted on /api/session/:id that is followed, with its
\* forwarder; what the other sockets of the room do shows as Store calls
Sockets == {1}

\* the slugs generateSlug() draws from, and the room ids uuid() mints for the
\* createRoom calls
Slugs == {"brave-otter", "amber-fox", "calm-heron"}
RoomName == <<"r2", "r3", "r4", "r5">>
NewRooms == {RoomName[i] : i \in 1..MaxRoom}

\* the users who ask for a room
Creators == {"u1", "u2"}

\* the names users register and rename themselves with
Names == {"ann", "bea"}

\* config retention.users: the lifetime pexpire gives user:<id>, in steps of AgeUsers
UserRetain == 2

\* the endpoints that need an actor: PUT /api/user, POST /api/room,
\* POST /api/room/:slug/join and the websocket /api/session/:id
Endpoints == {"updateUser", "createRoom", "createSession", "session"}

NoUser == "nobody"
NoRoom == "noroom"
NoId == 0
NoSig == "nosig"
NoRole == "norole"

\* the owner / slug a room record was created with (rooms are immutable)
OwnerOf(r) == "u1"
SlugOf(r) == "brave-otter"

VARIABLES
    user,        \* user:<id>              : TRUE while the hash exists
    room,        \* room:<id>              : [owner, slug] or NoRoomRec
    conns,       \* room:<id>:connections  : userId -> connection id (NoId = no field)
    connection,  \* connection:<id>        : [room, owner] or NoConnRec
    signal,      \* connection:<id>:signal : sequence of signal payloads
    nextId,      \* number of ids uuid() has minted
    calls,       \* the Store operations in flight, per slot
    deleted,     \* history: ids for which a deleteSession call has completed
    expired,     \* history: the keys that have reached their TTL
    messages,    \* room:<id>:messages    : the entries of the message stream
    clock,       \* the store's clock in milliseconds (stream entry ids)
    ws,          \* the websockets: transport state, setup and close handlers
    fwd,         \* the forwardEvents call of each websocket
    storeUp,     \* FALSE while the Redis server is unreachable
    outages,     \* number of times the store became unreachable
    slugs,       \* slugs                 : slug -> room id (NoRoom = no field)
    created,     \* room:<id> of the rooms createRoom makes: [owner, slug] or NoRoomRec
    creates,     \* the createRoom calls, one per room id uuid() mints for them
    name,        \* user:<id> name        : the name field of the user hash
    ttl,         \* user:<id>             : remaining lifetime (steps of AgeUsers)
    resp         \* the last response of each endpoint to a request without an actor

vars == <<user, room, conns, connection, signal, nextId, calls, deleted, expired,
          messages, clock, ws, fwd, storeUp, outages, slugs, created, creates,
          name, ttl, resp>>

\* the user names and lifetimes and the responses of the endpoints
appVars == <<name, ttl, resp>>

\* the slug map and the rooms in the making
roomVars == <<slugs, created, creates>>

\* the state of the websocket layer, the event streams' clock and the rooms
\* in the making
fwdVars == <<messages, clock, ws, fwd, storeUp, outages, roomVars, appVars>>

\* the users, the rooms of Rooms and their sessions
sessionVars == <<user, room, conns, connection, signal, nextId, calls, deleted, expired>>

NoRoomRec == [owner |-> NoUser, slug |-> "noslug"]
NoConnRec == [room |-> NoRoom, owner |-> NoUser]
NoConns == [u \in Users |-> NoId]
NoneExpired == [users |-> {}, connections |-> {}, count |-> 0]

NoResult == [status |-> "none", id |-> NoId, room |-> NoRoom, owner |-> NoUser, role |-> NoRole]
Fail(kind) == [NoResult EXCEPT !.status = kind]
Absent == [NoResult EXCEPT !.status = "absent"]
Ok == [NoResult EXCEPT !.status = "ok"]

\* the Room object of getRoom and createRoom; null
NullRoom == [id |-> NoRoom, slug |-> "noslug", created |-> 0, owner |-> NoUser]
NoGet == [by |-> "none", key |-> "nokey", id |-> NoRoom, room |-> NullRoom]

IdleCall == [op |-> "none", pc |-> "idle", room |-> NoRoom, user |-> NoUser, id |-> NoId,
             owner |-> NoUser, sig |-> NoSig, name |-> "noname", current |-> NoId,
             reply |-> "none", dirty |-> FALSE, get |-> NoGet,
             res |-> NoResult]

Free(k) == calls[k].pc \in {"idle", "done"}

\* ids whose connection record has been written (known to some client)
Written == {c \in 1..nextId :
              \A k \in Calls : ~(calls[k].op = "createSession" /\ calls[k].pc = "cs_write"
                                 /\ calls[k].id = c)}

\* WATCH room:<r>:connections is held by deleteSession between watch and exec/unwatch
Watching(k, r) == /\ calls[k].op = "deleteSession"
                  /\ calls[k].pc \in {"ds_current", "ds_exec"}
                  /\ calls[k].room = r

\* a write to room:<r>:connections by call `by` marks every other watcher dirty
Touch(cs, r, by) == [k \in Calls |->
                       IF k # by /\ Watching(k, r) THEN [cs[k] EXCEPT !.dirty = TRUE] ELSE cs[k]]

\* ---------------------------------------------------------------- streams
\* the cursor "0" a forwarder starts from
ZeroId == <<0, 0>>

\* order of stream entry ids <ms>-<seq>
IdGt(a, b) == a[1] > b[1] \/ (a[1] = b[1] /\ a[2] > b[2])

\* the id XADD * gives a new entry: <now>-0, or the last id's successor when
\* the stream already holds an entry of this millisecond
NewId(stream) ==
    IF stream = <<>> THEN <<clock, 0>>
    ELSE LET last == stream[Len(stream)].id IN
         IF clock > last[1] THEN <<clock, 0>> ELSE <<last[1], last[2] + 1>>

\* JSON.stringify / JSON.parse of a message or signal object
Stringify(data) == <<"json", data>>
Parse(text) == text[2]

\* the field list xadd stores: type <t> time <ms> data <json>
Fields(type, time, data) == <<"type", type, "time", time, "data", Stringify(data)>>

\* the object of a signal (its payload stands for itself) and of a message
SignalData(s) == [type |-> s, user |-> NoUser, session |-> NoId]
MessageData(type, u, id) == [type |-> type, user |-> u, session |-> id]

\* data.ts:153-158  the value of the first field named f (fields[i], i = 0, 2, ..)
RECURSIVE FieldFrom(_, _, _)
FieldFrom(fields, f, i) ==
    IF i >= Len(fields) THEN <<"json", [type |-> "none", user |-> NoUser, session |-> NoId]>>
    ELSE IF fields[i] = f THEN fields[i + 1]
    ELSE FieldFrom(fields, f, i + 2)
FieldOf(fields, f) == FieldFrom(fields, f, 1)

\* a websocket that has not been accepted, and a forwarder that has not started
IdleSocket == [pc |-> "idle", user |-> NoUser, id |-> NoId, session |-> NoConnRec,
               room |-> NoRoom, open |-> FALSE,
               join |-> FALSE, close |-> "none", err |-> "none", sent |-> <<>>,
               queueing |-> TRUE, queue |-> <<>>, out |-> <<>>,
               received |-> <<>>, delivered |-> <<>>]
IdleForwarder == [pc |-> "idle", room |-> NoRoom, actor |-> NoUser, connection |-> NoId,
                  messageCursor |-> ZeroId, peer |-> NoId, peerCursor |-> ZeroId,
                  users |-> [u \in Users |-> "miss"], batch |-> <<>>,
                  held |-> FALSE, released |-> 0, result |-> "none", failed |-> "none"]

\* a createRoom call that has not started
IdleCreate == [pc |-> "idle", owner |-> NoUser, slug |-> "noslug", tries |-> 0,
               err |-> "none", at |-> 0]

\* no websocket has been accepted yet; the store is reachable; the slug map
\* holds the slugs of the rooms of Rooms and no createRoom call has started
NoSocketsYet ==
    /\ name = [u \in Users |-> "ann"]
    /\ ttl = [u \in Users |-> UserRetain]
    /\ resp = [e \in Endpoints |-> "none"]
    /\ slugs = [s \in Slugs |-> IF \E r \in Rooms : SlugOf(r) = s
                                THEN CHOOSE r \in Rooms : SlugOf(r) = s ELSE NoRoom]
    /\ created = [n \in NewRooms |-> NoRoomRec]
    /\ creates = [n \in NewRooms |-> IdleCreate]
    /\ clock = 1
    /\ ws = [f \in Sockets |-> IdleSocket]
    /\ fwd = [f \in Sockets |-> IdleForwarder]
    /\ storeUp = TRUE
    /\ outages = 0

\* and no message has been written to a room stream
NoSockets ==
    /\ NoSocketsYet
    /\ messages = [r \in Rooms |-> <<>>]

Init ==
    /\ NoSockets
    /\ user = [u \in Users |-> TRUE]
    /\ room = [r \in Rooms |-> [owner |-> OwnerOf(r), slug |-> SlugOf(r)]]
    /\ conns = [r \in Rooms |-> NoConns]
    /\ connection = [c \in ConnIds |-> NoConnRec]
    /\ signal = [c \in ConnIds |-> <<>>]
    /\ nextId = 0
    /\ calls = [k \in Calls |-> IdleCall]
    /\ deleted = {}
    /\ expired = NoneExpired

\* a store that has served a session before: connection id 1 was minted for
\* the owner's session in r1, which deleteSession has removed since
InitUsed ==
    /\ NoSockets
    /\ user = [u \in Users |-> TRUE]
    /\ room = [r \in Rooms |-> [owner |-> OwnerOf(r), slug |-> SlugOf(r)]]
    /\ conns = [r \in Rooms |-> NoConns]
    /\ connection = [c \in ConnIds |-> NoConnRec]
    /\ signal = [c \in ConnIds |-> <<>>]
    /\ nextId = 1
    /\ calls = [k \in Calls |-> IdleCall]
    /\ deleted = {1}
    /\ expired = NoneExpired

\* ------------------------------------------------------------ pure helpers
\* seeded fault: every actor is taken for a guest
RoleOf_Guest(actor, owner) == "guest"

\* data.ts:319  const role = actor === owner ? "host" : "guest"
RoleOf(actor, owner) == IF actor = owner THEN "host" ELSE "guest"

\* data.ts:323-325  new Set(await hkeys(room:<r>:connections))
ConnKeys(r) == {u \in Users : conns[r][u] # NoId}

\* data.ts:326  guests = conns without the owner
GuestsOf(keys, owner) == keys \ {owner}

\* seeded fault: the self-rejoin check is dropped
AlreadyJoined_Never(keys, actor) == FALSE

\* data.ts:328  conns.has(actor)
AlreadyJoined(keys, actor) == actor \in keys

\* seeded fault: the guest capacity check is dropped
RoomFull_Never(role, guests) == FALSE

\* data.ts:329  role === "guest" && guests.size > 0
RoomFull(role, guests) == role = "guest" /\ guests # {}

\* seeded fault: the occupancy link is not compared with the id
Linked_Always(link, id) == TRUE

\* data.ts:368  link === id
Linked(link, id) == link = id

\* seeded fault: the occupancy entry is removed whatever it points at
ShouldRemove_Always(current, id) == TRUE

\* data.ts:383  current === id
ShouldRemove(current, id) == current = id

\* MULTI/EXEC after WATCH commits only when no watched key was touched
ExecCommits(dirty) == ~dirty

\* createSession calls that passed hmget and have not minted their id yet
Minting == {k \in Calls : calls[k].op = "createSession" /\ calls[k].pc = "cs_keys"}

\* ------------------------------------------------------------ createSession
\* seeded fault: a missing room record is not rejected
createSession_hmget_NoCheck(k, r, a) ==
    /\ Free(k)
    /\ nextId + Cardinality(Minting) < MaxConn
    /\ calls' = [calls EXCEPT ![k] =
          [IdleCall EXCEPT !.op = "createSession", !.pc = "cs_keys", !.room = r, !.user = a,
                           !.owner = room[r].owner]]
    /\ UNCHANGED <<user, room, conns, connection, signal, nextId, deleted, expired>>
    /\ UNCHANGED fwdVars

\* data.ts:312-317  hmget room:<r> owner slug; NotFound when the record is absent
createSession_hmget(k, r, a) ==
    /\ Free(k)
    /\ nextId + Cardinality(Minting) < MaxConn
    /\ calls' = [calls EXCEPT ![k] =
          IF room[r] = NoRoomRec
          THEN [IdleCall EXCEPT !.op = "createSession", !.pc = "done", !.room = r, !.user = a,
                                !.res = Fail("NotFound")]
          ELSE [IdleCall EXCEPT !.op = "createSession", !.pc = "cs_keys", !.room = r, !.user = a,
                                !.owner = room[r].owner]]
    /\ UNCHANGED <<user, room, conns, connection, signal, nextId, deleted, expired>>
    /\ UNCHANGED fwdVars

\* data.ts:319-332  hkeys, the two Conflict checks, uuid()
createSession_hkeys(k) ==
    /\ calls[k].op = "createSession" /\ calls[k].pc = "cs_keys"
    /\ LET c == calls[k]
           keys == ConnKeys(c.room)
           role == RoleOf(c.user, c.owner)
       IN IF AlreadyJoined(keys, c.user) \/ RoomFull(role, GuestsOf(keys, c.owner))
          THEN /\ calls' = [calls EXCEPT ![k].pc = "done", ![k].res = Fail("Conflict")]
               /\ UNCHANGED nextId
          ELSE /\ nextId' = nextId + 1
               /\ calls' = [calls EXCEPT ![k].pc = "cs_write", ![k].id = nextId + 1]
    /\ UNCHANGED <<user, room, conns, connection, signal, deleted, expired>>
    /\ UNCHANGED fwdVars

\* seeded fault: the record's owner field gets the room owner instead of the actor
createSession_pipeline_RoomOwner(k) ==
    /\ calls[k].op = "createSession" /\ calls[k].pc = "cs_write"
    /\ LET c == calls[k] IN
       /\ connection' = [connection EXCEPT ![c.id] = [room |-> c.room, owner |-> c.owner]]
       /\ conns' = [conns EXCEPT ![c.room][c.user] = c.id]
       /\ calls' = [Touch(calls, c.room, k) EXCEPT ![k].pc = "cs_event"]
    /\ UNCHANGED <<user, room, signal, nextId, deleted, expired>>
    /\ UNCHANGED fwdVars

\* data.ts:334-343  pipeline: hmset connection:<id>, hset occupancy, pexpire both
createSession_pipeline(k) ==
    /\ calls[k].op = "createSession" /\ calls[k].pc = "cs_write"
    /\ LET c == calls[k] IN
       /\ connection' = [connection EXCEPT ![c.id] = [room |-> c.room, owner |-> c.user]]
       /\ conns' = [conns EXCEPT ![c.room][c.user] = c.id]
       /\ calls' = [Touch(calls, c.room, k) EXCEPT ![k].pc = "cs_event"]
    /\ UNCHANGED <<user, room, signal, nextId, deleted, expired>>
    /\ UNCHANGED fwdVars

\* data.ts:345-351  addUserEvent(actor, "join room"), then return the session
createSession_addUserEvent(k) ==
    /\ calls[k].op = "createSession" /\ calls[k].pc = "cs_event"
    /\ LET c == calls[k] IN
       calls' = [calls EXCEPT ![k].pc = "done",
                    ![k].res = [status |-> "session", id |-> c.id, room |-> c.room,
                                owner |-> NoUser, role |-> RoleOf(c.user, c.owner)]]
    /\ UNCHANGED <<user, room, conns, connection, signal, nextId, deleted, expired>>
    /\ UNCHANGED fwdVars

\* ------------------------------------------------------------ getSession
\* data.ts:357-358  hgetall connection:<id>
getSession_hgetall(k, id) ==
    /\ Free(k)
    /\ id \in Written
    /\ calls' = [calls EXCEPT ![k] =
          IF connection[id] = NoConnRec
          THEN [IdleCall EXCEPT !.op = "getSession", !.pc = "done", !.id = id, !.res = Absent]
          ELSE [IdleCall EXCEPT !.op = "getSession", !.pc = "gs_user", !.id = id,
                                !.room = connection[id].room, !.owner = connection[id].owner]]
    /\ UNCHANGED <<user, room, conns, connection, signal, nextId, deleted, expired>>
    /\ UNCHANGED fwdVars

\* data.ts:360-361  getUser(data.owner)
getSession_getUser(k) ==
    /\ calls[k].op = "getSession" /\ calls[k].pc = "gs_user"
    /\ calls' = [calls EXCEPT ![k] =
          IF user[calls[k].owner]
          THEN [calls[k] EXCEPT !.pc = "gs_link"]
          ELSE [calls[k] EXCEPT !.pc = "done", !.res = Absent]]
    /\ UNCHANGED <<user, room, conns, connection, signal, nextId, deleted, expired>>
    /\ UNCHANGED fwdVars

\* data.ts:363-368  hget occupancy[user.id]; the session only when it is this id
getSession_hget(k) ==
    /\ calls[k].op = "getSession" /\ calls[k].pc = "gs_link"
    /\ LET c == calls[k]
           link == conns[c.room][c.owner]
       IN calls' = [calls EXCEPT ![k].pc = "done",
                       ![k].res = IF Linked(link, c.id)
                                  THEN [NoResult EXCEPT !.status = "found", !.room = c.room,
                                                        !.owner = c.owner]
                                  ELSE Absent]
    /\ UNCHANGED <<user, room, conns, connection, signal, nextId, deleted, expired>>
    /\ UNCHANGED fwdVars

\* ------------------------------------------------------------ deleteSession
\* seeded fault: a missing record is reported as a successful delete
deleteSession_hgetall_NoCheck(k, id) ==
    /\ Free(k)
    /\ id \in Written
    /\ IF connection[id] = NoConnRec
       THEN /\ calls' = [calls EXCEPT ![k] =
                  [IdleCall EXCEPT !.op = "deleteSession", !.pc = "done", !.id = id, !.res = Ok]]
            /\ deleted' = deleted \cup {id}
       ELSE /\ calls' = [calls EXCEPT ![k] =
                  [IdleCall EXCEPT !.op = "deleteSession", !.pc = "ds_watch", !.id = id,
                                   !.room = connection[id].room, !.owner = connection[id].owner]]
            /\ UNCHANGED deleted
    /\ UNCHANGED <<user, room, conns, connection, signal, nextId, expired>>
    /\ UNCHANGED fwdVars

\* data.ts:83-85, 372-375  Store.deleteSession(id) on pooled connection k:
\* hgetall connection:<id>; NotFound when room or owner is missing
Store_deleteSession(k, id) ==
    /\ Free(k)
    /\ id \in Written
    /\ IF connection[id] = NoConnRec
       THEN /\ calls' = [calls EXCEPT ![k] =
                  [IdleCall EXCEPT !.op = "deleteSession", !.pc = "done", !.id = id,
                                   !.res = Fail("NotFound")]]
            /\ deleted' = deleted \cup {id}
       ELSE /\ calls' = [calls EXCEPT ![k] =
                  [IdleCall EXCEPT !.op = "deleteSession", !.pc = "ds_watch", !.id = id,
                                   !.room = connection[id].room, !.owner = connection[id].owner]]
            /\ UNCHANGED deleted
    /\ UNCHANGED <<user, room, conns, connection, signal, nextId, expired>>

\* deleteSession(id) called on its own, the websocket layer standing still
deleteSession_hgetall(k, id) ==
    /\ Store_deleteSession(k, id)
    /\ UNCHANGED fwdVars

\* data.ts:377  watch room:<r>:connections
deleteSession_watch(k) ==
    /\ calls[k].op = "deleteSession" /\ calls[k].pc = "ds_watch"
    /\ calls' = [calls EXCEPT ![k].pc = "ds_current", ![k].dirty = FALSE]
    /\ UNCHANGED <<user, room, conns, connection, signal, nextId, deleted, expired>>
    /\ UNCHANGED fwdVars

\* data.ts:379-383  hget occupancy[owner]; branch on current === id
deleteSession_hget(k) ==
    /\ calls[k].op = "deleteSession" /\ calls[k].pc = "ds_current"
    /\ LET c == calls[k] IN
       calls' = [calls EXCEPT ![k].current = conns[c.room][c.owner],
                              ![k].pc = IF ShouldRemove(conns[c.room][c.owner], c.id)
                                        THEN "ds_exec" ELSE "ds_unwatch"]
    /\ UNCHANGED <<user, room, conns, connection, signal, nextId, deleted, expired>>
    /\ UNCHANGED fwdVars

\* data.ts:384-387  multi().hdel(occupancy, owner).exec(); the reply is not inspected
deleteSession_exec(k) ==
    /\ calls[k].op = "deleteSession" /\ calls[k].pc = "ds_exec"
    /\ LET c == calls[k] IN
       IF ExecCommits(c.dirty)
       THEN /\ conns' = [conns EXCEPT ![c.room][c.owner] = NoId]
            /\ calls' = [Touch(calls, c.room, k) EXCEPT ![k].pc = "ds_del", ![k].dirty = FALSE]
       ELSE /\ conns' = conns
            /\ calls' = [calls EXCEPT ![k].pc = "ds_del", ![k].dirty = FALSE]
    /\ UNCHANGED <<user, room, connection, signal, nextId, deleted, expired>>
    /\ UNCHANGED fwdVars

\* data.ts:388-390  unwatch
deleteSession_unwatch(k) ==
    /\ calls[k].op = "deleteSession" /\ calls[k].pc = "ds_unwatch"
    /\ calls' = [calls EXCEPT ![k].pc = "ds_del", ![k].dirty = FALSE]
    /\ UNCHANGED <<user, room, conns, connection, signal, nextId, deleted, expired>>
    /\ UNCHANGED fwdVars

\* seeded fault: only the signal stream is deleted, the record stays
deleteSession_del_KeepRecord(k) ==
    /\ calls[k].op = "deleteSession" /\ calls[k].pc = "ds_del"
    /\ signal' = [signal EXCEPT ![calls[k].id] = <<>>]
    /\ deleted' = deleted \cup {calls[k].id}
    /\ calls' = [calls EXCEPT ![k].pc = "done", ![k].current = NoId, ![k].res = Ok]
    /\ UNCHANGED <<user, room, conns, connection, nextId, expired>>
    /\ UNCHANGED fwdVars

\* seeded fault: only the record is deleted, the signal stream stays
deleteSession_del_KeepSignal(k) ==
    /\ calls[k].op = "deleteSession" /\ calls[k].pc = "ds_del"
    /\ connection' = [connection EXCEPT ![calls[k].id] = NoConnRec]
    /\ deleted' = deleted \cup {calls[k].id}
    /\ calls' = [calls EXCEPT ![k].pc = "done", ![k].current = NoId, ![k].res = Ok]
    /\ UNCHANGED <<user, room, conns, signal, nextId, expired>>
    /\ UNCHANGED fwdVars

\* data.ts:392-395  del connection:<id> connection:<id>:signal
deleteSession_del(k) ==
    /\ calls[k].op = "deleteSession" /\ calls[k].pc = "ds_del"
    /\ LET c == calls[k] IN
       /\ connection' = [connection EXCEPT ![c.id] = NoConnRec]
       /\ signal' = [signal EXCEPT ![c.id] = <<>>]
       /\ deleted' = deleted \cup {c.id}
    /\ calls' = [calls EXCEPT ![k].pc = "done", ![k].current = NoId, ![k].res = Ok]
    /\ UNCHANGED <<user, room, conns, nextId, expired>>
    /\ UNCHANGED fwdVars

\* ------------------------------------------------------------ writeSignal
\* entries held by all signal streams together (bounded by MaxSignal)
RECURSIVE SumLen(_)
SumLen(ids) == IF ids = {} THEN 0
               ELSE LET c == CHOOSE x \in ids : TRUE IN Len(signal[c]) + SumLen(ids \ {c})
StoredSignals == SumLen(ConnIds)

\* data.ts:87-89, 399-409  Store.writeSignal(id, s) on pooled connection k:
\* xadd connection:<id>:signal * type <t> time <now> data <json>
Store_writeSignal(k, id, s) ==
    /\ Free(k)
    /\ id \in Written
    /\ StoredSignals < MaxSignal
    /\ signal' = [signal EXCEPT ![id] =
          Append(@, [id |-> NewId(@), fields |-> Fields(s, clock, SignalData(s))])]
    /\ calls' = [calls EXCEPT ![k] =
          [IdleCall EXCEPT !.op = "writeSignal", !.pc = "ws_expire", !.id = id, !.sig = s]]
    /\ UNCHANGED <<user, room, conns, connection, nextId, deleted, expired>>

\* writeSignal(id, s) called on its own, the websocket layer standing still
writeSignal_xadd(k, id, s) ==
    /\ Store_writeSignal(k, id, s)
    /\ UNCHANGED fwdVars

\* data.ts:411-416  pexpire the stream, return the entry id
writeSignal_pexpire(k) ==
    /\ calls[k].op = "writeSignal" /\ calls[k].pc = "ws_expire"
    /\ calls' = [calls EXCEPT ![k].pc = "done", ![k].sig = NoSig,
                                ![k].res = [Ok EXCEPT !.id = calls[k].id]]
    /\ UNCHANGED <<user, room, conns, connection, signal, nextId, deleted, expired>>
    /\ UNCHANGED fwdVars

\* ------------------------------------------------------------ key expiry
\* user:<id> reaches its TTL (set by pexpire, data.ts:212)
ExpireUser(u) ==
    /\ expired.count < MaxExpire
    /\ user[u]
    /\ user' = [user EXCEPT ![u] = FALSE]
    /\ expired' = [expired EXCEPT !.users = @ \cup {u}, !.count = @ + 1]
    /\ UNCHANGED <<room, conns, connection, signal, nextId, calls, deleted>>
    /\ UNCHANGED fwdVars

\* room:<id> reaches its TTL (data.ts:268)
ExpireRoom(r) ==
    /\ expired.count < MaxExpire
    /\ room[r] # NoRoomRec
    /\ room' = [room EXCEPT ![r] = NoRoomRec]
    /\ expired' = [expired EXCEPT !.count = @ + 1]
    /\ UNCHANGED <<user, conns, connection, signal, nextId, calls, deleted>>
    /\ UNCHANGED fwdVars

\* connection:<id> reaches its TTL (data.ts:341); it is never refreshed
ExpireConnection(c) ==
    /\ expired.count < MaxExpire
    /\ connection[c] # NoConnRec
    /\ connection' = [connection EXCEPT ![c] = NoConnRec]
    /\ expired' = [expired EXCEPT !.connections = @ \cup {c}, !.count = @ + 1]
    /\ UNCHANGED <<user, room, conns, signal, nextId, calls, deleted>>
    /\ UNCHANGED fwdVars

\* room:<id>:connections reaches its TTL (data.ts:342).  Its TTL is set after
\* that of every connection record of the room and with the same length, so it
\* expires only once those records are gone.  Expiry touches the key for WATCH.
ExpireConns(r) ==
    /\ expired.count < MaxExpire
    /\ conns[r] # NoConns
    /\ \A c \in ConnIds : connection[c].room # r
    /\ conns' = [conns EXCEPT ![r] = NoConns]
    /\ calls' = Touch(calls, r, NoCall)
    /\ expired' = [expired EXCEPT !.count = @ + 1]
    /\ UNCHANGED <<user, room, connection, signal, nextId, deleted>>
    /\ UNCHANGED fwdVars

\* ------------------------------------------------------------ updateUser
\* WATCH user:<u> is held by updateUser between watch and exec
WatchingUser(k, u) == /\ calls[k].op = "updateUser"
                      /\ calls[k].pc \in {"uu_exists", "uu_exec"}
                      /\ calls[k].user = u

\* seeded fault: a change of user:<u> is not seen by the watchers
TouchUser_Unseen(cs, us, by) == cs

\* a change of one of the keys user:<u>, u in us (a write, a pexpire, its
\* expiry) by call `by` marks every other watcher of the key dirty
TouchUser(cs, us, by) ==
    [k \in Calls |-> IF k # by /\ (\E u \in us : WatchingUser(k, u))
                     THEN [cs[k] EXCEPT !.dirty = TRUE] ELSE cs[k]]

\* data.ts:52-54, 242-243  Store.updateUser(u, {name: n}) on pooled connection k:
\* watch user:<u>
updateUser_watch(k, u, n) ==
    /\ Free(k)
    /\ calls' = [calls EXCEPT ![k] =
          [IdleCall EXCEPT !.op = "updateUser", !.pc = "uu_exists", !.user = u, !.name = n]]
    /\ UNCHANGED <<user, room, conns, connection, signal, nextId, deleted, expired>>
    /\ UNCHANGED fwdVars

\* data.ts:245-246  exists user:<u>, NotFound when it does not
updateUser_exists(k) ==
    /\ calls[k].op = "updateUser" /\ calls[k].pc = "uu_exists"
    /\ calls' = [calls EXCEPT ![k] =
          IF user[calls[k].user] THEN [@ EXCEPT !.pc = "uu_exec"]
          ELSE [@ EXCEPT !.pc = "done", !.dirty = FALSE, !.res = Fail("NotFound")]]
    /\ UNCHANGED <<user, room, conns, connection, signal, nextId, deleted, expired>>
    /\ UNCHANGED fwdVars

\* data.ts:248-250  multi().hset(user:<u>, {name}).exec(), not awaited: `result`
\* is a promise and never null.  hset writes the field, creating the hash when
\* it is missing, and sets no TTL
updateUser_exec(k) ==
    /\ calls[k].op = "updateUser" /\ calls[k].pc = "uu_exec"
    /\ LET c == calls[k] IN
       IF ExecCommits(c.dirty)
       THEN /\ name' = [name EXCEPT ![c.user] = c.name]
            /\ user' = [user EXCEPT ![c.user] = TRUE]
            /\ ttl' = [ttl EXCEPT ![c.user] = IF user[c.user] THEN @ ELSE UserRetain + 1]
            /\ calls' = [TouchUser(calls, {c.user}, k) EXCEPT ![k].pc = "uu_get",
                                                               ![k].reply = "ok",
                                                               ![k].dirty = FALSE]
       ELSE /\ calls' = [calls EXCEPT ![k].pc = "uu_get", ![k].reply = "null",
                                      ![k].dirty = FALSE]
            /\ UNCHANGED <<name, user, ttl>>
    /\ UNCHANGED <<room, conns, connection, signal, nextId, deleted, expired>>
    /\ UNCHANGED <<messages, clock, ws, fwd, storeUp, outages, roomVars, resp>>

\* data.ts:56-60  store.getUser(u) after the update: Conflict when it is null
updateUser_getUser(k) ==
    /\ calls[k].op = "updateUser" /\ calls[k].pc = "uu_get"
    /\ calls' = [calls EXCEPT ![k].pc = "done", ![k].reply = "none",
                               ![k].res = IF user[calls[k].user] THEN Ok ELSE Fail("Conflict")]
    /\ UNCHANGED <<user, room, conns, connection, signal, nextId, deleted, expired>>
    /\ UNCHANGED fwdVars

\* data.ts:229-240  addUserEvent(u, event): exists user:<u>, then the pipeline
\* whose pexpire gives user:<u> its full lifetime again
addUserEvent_pexpire(u) ==
    /\ user[u]
    /\ ttl[u] < UserRetain
    /\ ttl' = [ttl EXCEPT ![u] = UserRetain]
    /\ calls' = TouchUser(calls, {u}, NoCall)
    /\ UNCHANGED <<user, room, conns, connection, signal, nextId, deleted, expired>>
    /\ UNCHANGED <<messages, clock, ws, fwd, storeUp, outages, roomVars, name, resp>>

\* time passes: every user key with a TTL loses one step of lifetime, and the
\* keys whose lifetime is over are gone (data.ts:212)
AgeUsers ==
    /\ \E u \in Users : user[u] /\ ttl[u] <= UserRetain
    /\ LET aging == {u \in Users : user[u] /\ ttl[u] <= UserRetain}
           gone == {u \in aging : ttl[u] = 1}
       IN /\ ttl' = [u \in Users |-> IF u \in aging THEN ttl[u] - 1 ELSE ttl[u]]
          /\ user' = [u \in Users |-> user[u] /\ u \notin gone]
          /\ calls' = TouchUser(calls, gone, NoCall)
    /\ UNCHANGED <<room, conns, connection, signal, nextId, deleted, expired>>
    /\ UNCHANGED <<messages, clock, ws, fwd, storeUp, outages, roomVars, name, resp>>

\* ------------------------------------------------------------ createRoom
\* data.ts:420  the slugs allocateSlug tries before it gives up
SlugTries == 4

\* seeded fault: createRoom does not look the owner up
createRoom_getUser_NoCheck(n, owner) ==
    /\ creates[n].pc = "idle"
    /\ creates' = [creates EXCEPT ![n] = [IdleCreate EXCEPT !.pc = "cr_slug", !.owner = owner]]
    /\ UNCHANGED <<sessionVars, appVars, messages, clock, ws, fwd, storeUp, outages, slugs, created>>

\* data.ts:64-66, 253-257  Store.createRoom(owner): getUser(owner), NotFound when
\* the user is not registered; then uuid() mints the room's id n
createRoom_getUser(n, owner) ==
    /\ creates[n].pc = "idle"
    /\ creates' = [creates EXCEPT ![n] =
          IF user[owner] THEN [IdleCreate EXCEPT !.pc = "cr_slug", !.owner = owner]
          ELSE [IdleCreate EXCEPT !.pc = "failed", !.owner = owner, !.err = "NotFound"]]
    /\ UNCHANGED <<sessionVars, appVars, messages, clock, ws, fwd, storeUp, outages, slugs, created>>

\* seeded fault: hset in place of hsetnx, the slug is taken over
allocateSlug_hset(n, slug) ==
    /\ creates[n].pc = "cr_slug"
    /\ slugs' = [slugs EXCEPT ![slug] = n]
    /\ creates' = [creates EXCEPT ![n].pc = "cr_hmset", ![n].slug = slug]
    /\ UNCHANGED <<sessionVars, appVars, messages, clock, ws, fwd, storeUp, outages, created>>

\* seeded fault: the loop goes round once more before it gives up
allocateSlug_hsetnx_OneMore(n, slug) ==
    /\ creates[n].pc = "cr_slug"
    /\ IF slugs[slug] = NoRoom
       THEN /\ slugs' = [slugs EXCEPT ![slug] = n]
            /\ creates' = [creates EXCEPT ![n].pc = "cr_hmset", ![n].slug = slug]
       ELSE /\ creates' = [creates EXCEPT ![n].tries = @ + 1,
                                         ![n].pc = IF creates[n].tries + 1 > SlugTries
                                                   THEN "failed" ELSE "cr_slug",
                                         ![n].err = IF creates[n].tries + 1 > SlugTries
                                                    THEN "Error" ELSE "none"]
            /\ UNCHANGED slugs
    /\ UNCHANGED <<sessionVars, appVars, messages, clock, ws, fwd, storeUp, outages, created>>

\* data.ts:419-429  allocateSlug: hsetnx slugs <generateSlug()> <id>; the slug is
\* the room's when the field was new, after four taken slugs the call fails
allocateSlug_hsetnx(n, slug) ==
    /\ creates[n].pc = "cr_slug"
    /\ IF slugs[slug] = NoRoom
       THEN /\ slugs' = [slugs EXCEPT ![slug] = n]
            /\ creates' = [creates EXCEPT ![n].pc = "cr_hmset", ![n].slug = slug]
       ELSE /\ creates' = [creates EXCEPT ![n].tries = @ + 1,
                                         ![n].pc = IF creates[n].tries + 1 >= SlugTries
                                                   THEN "failed" ELSE "cr_slug",
                                         ![n].err = IF creates[n].tries + 1 >= SlugTries
                                                    THEN "Error" ELSE "none"]
            /\ UNCHANGED slugs
    /\ UNCHANGED <<sessionVars, appVars, messages, clock, ws, fwd, storeUp, outages, created>>

\* the decimal digits of a number, as the store keeps the value of +created
RECURSIVE ToDecimal(_)
ToDecimal(i) == IF i < 10 THEN <<i>> ELSE Append(ToDecimal(i \div 10), i % 10)

\* data.ts:457-459  date(value): new Date(Number.parseInt(value, 10))
RECURSIVE date(_)
date(value) ==
    IF value = <<>> THEN 0
    ELSE 10 * date(SubSeq(value, 1, Len(value) - 1)) + value[Len(value)]

\* data.ts:259-266  created = new Date(); hmset room:<id> id slug created owner
createRoom_hmset(n) ==
    /\ creates[n].pc = "cr_hmset"
    /\ created' = [created EXCEPT ![n] =
          [id |-> n, slug |-> creates[n].slug, created |-> ToDecimal(clock),
           owner |-> creates[n].owner]]
    /\ creates' = [creates EXCEPT ![n].pc = "cr_expire", ![n].at = clock]
    /\ UNCHANGED <<sessionVars, appVars, messages, clock, ws, fwd, storeUp, outages, slugs>>

\* data.ts:268-271  pexpire room:<id>, addUserEvent, return the room
createRoom_pexpire(n) ==
    /\ creates[n].pc = "cr_expire"
    /\ creates' = [creates EXCEPT ![n].pc = "done"]
    /\ UNCHANGED <<sessionVars, appVars, messages, clock, ws, fwd, storeUp, outages, slugs, created>>

\* data.ts:271  the Room createRoom returns
RoomReturned(n) ==
    [id |-> n, slug |-> creates[n].slug, created |-> creates[n].at, owner |-> creates[n].owner]

\* the hash room:<id> as hgetall reads it; the rooms of Rooms were made at time 0
RoomHash(id) ==
    IF id \in NewRooms THEN created[id]
    ELSE IF id \in Rooms /\ room[id] # NoRoomRec
    THEN [id |-> id, slug |-> room[id].slug, created |-> ToDecimal(0), owner |-> room[id].owner]
    ELSE NoRoomRec

\* data.ts:281-286  the Room made of the fields of the hash
RoomFrom(data) ==
    [id |-> data.id, slug |-> data.slug, created |-> date(data.created), owner |-> data.owner]

\* data.ts:67-69, 274-279  Store.getRoom("id", id): hgetall room:<id> at once
getRoom_id(k, id) ==
    /\ Free(k)
    /\ calls' = [calls EXCEPT ![k] =
          [IdleCall EXCEPT !.op = "getRoom", !.pc = "done",
                           !.get = [by |-> "id", key |-> id, id |-> id,
                                    room |-> IF RoomHash(id) = NoRoomRec THEN NullRoom
                                             ELSE RoomFrom(RoomHash(id))]]]
    /\ UNCHANGED <<user, room, conns, connection, signal, nextId, deleted, expired>>
    /\ UNCHANGED fwdVars

\* data.ts:275-276, 431-433  Store.getRoom("slug", slug): resolveSlug is hget
\* slugs <slug>; null when the slug has no entry
getRoom_resolveSlug(k, slug) ==
    /\ Free(k)
    /\ calls' = [calls EXCEPT ![k] =
          [IdleCall EXCEPT !.op = "getRoom",
                           !.pc = IF slugs[slug] = NoRoom THEN "done" ELSE "gr_hgetall",
                           !.get = [by |-> "slug", key |-> slug, id |-> slugs[slug],
                                    room |-> NullRoom]]]
    /\ UNCHANGED <<user, room, conns, connection, signal, nextId, deleted, expired>>
    /\ UNCHANGED fwdVars

\* seeded fault: an empty hash is made into a Room as well
getRoom_hgetall_NoEmptyCheck(k) ==
    /\ calls[k].op = "getRoom" /\ calls[k].pc = "gr_hgetall"
    /\ calls' = [calls EXCEPT ![k].pc = "done",
                               ![k].get.room =
                                   IF RoomHash(calls[k].get.id) = NoRoomRec
                                   THEN [NullRoom EXCEPT !.id = calls[k].get.id]
                                   ELSE RoomFrom(RoomHash(calls[k].get.id))]
    /\ UNCHANGED <<user, room, conns, connection, signal, nextId, deleted, expired>>
    /\ UNCHANGED fwdVars

\* data.ts:278-286  getRoom by slug: hgetall room:<id>; null when the hash is
\* empty, else the Room of its fields
getRoom_hgetall(k) ==
    /\ calls[k].op = "getRoom" /\ calls[k].pc = "gr_hgetall"
    /\ calls' = [calls EXCEPT ![k].pc = "done",
                               ![k].get.room =
                                   IF RoomHash(calls[k].get.id) = NoRoomRec THEN NullRoom
                                   ELSE RoomFrom(RoomHash(calls[k].get.id))]
    /\ UNCHANGED <<user, room, conns, connection, signal, nextId, deleted, expired>>
    /\ UNCHANGED fwdVars

\* room:<id> of a created room reaches its TTL (data.ts:268); its slug stays in
\* the slug map, which has no TTL
ExpireCreated(n) ==
    /\ creates[n].pc = "done"
    /\ created[n] # NoRoomRec
    /\ created' = [created EXCEPT ![n] = NoRoomRec]
    /\ UNCHANGED <<sessionVars, appVars, messages, clock, ws, fwd, storeUp, outages, slugs, creates>>

\* ------------------------------------------------------------ websocket
\* ws.close() / the client closing: the 'close' event runs the close handler,
\* which reads `room` when it starts (part_003:317-335)
CloseSocket(w) ==
    IF w.open
    THEN [w EXCEPT !.open = FALSE,
                   !.close = IF w.room # NoRoom THEN "cl_leave" ELSE "cl_delete"]
    ELSE w

\* data.ts:289-309  writeMessage: xadd room:<r>:messages * type time data
WriteMessage(r, type, u, id) ==
    [messages EXCEPT ![r] =
        Append(@, [id |-> NewId(@), fields |-> Fields(type, clock, MessageData(type, u, id))])]

\* part_003:216-229, 339  app.ws("/api/session/:id"): the socket of user u is
\* accepted for session id and setup() starts
ws_connect(f, u, id) ==
    /\ ws[f].pc = "idle"
    /\ id \in Written
    /\ ws' = [ws EXCEPT ![f] = [IdleSocket EXCEPT !.pc = "su_session", !.user = u, !.id = id,
                                                  !.open = TRUE]]
    /\ UNCHANGED <<user, room, conns, connection, signal, nextId, calls, deleted, expired, roomVars, appVars,
                   messages, clock, fwd, storeUp, outages>>

\* a failed setup: setup().catch closes the socket and passes the error on
SetupFailed(w, kind) == [CloseSocket(w) EXCEPT !.pc = "su_failed", !.err = kind]

\* part_003:230-231, data.ts:357-358  setup: store.getSession(id), its hgetall of
\* connection:<id>; NotFound when the record is absent
setup_hgetall(f) ==
    /\ ws[f].pc = "su_session"
    /\ storeUp
    /\ LET w == ws[f] IN
       ws' = [ws EXCEPT ![f] =
          IF connection[w.id] = NoConnRec THEN SetupFailed(w, "NotFound")
          ELSE [w EXCEPT !.pc = "su_user", !.session = connection[w.id]]]
    /\ UNCHANGED <<user, room, conns, connection, signal, nextId, calls, deleted, expired, roomVars, appVars,
                   messages, clock, fwd, storeUp, outages>>

\* part_003:230-231, data.ts:360-361  getSession: getUser(data.owner)
setup_getUser(f) ==
    /\ ws[f].pc = "su_user"
    /\ storeUp
    /\ LET w == ws[f] IN
       ws' = [ws EXCEPT ![f] =
          IF user[w.session.owner] THEN [w EXCEPT !.pc = "su_link"]
          ELSE SetupFailed(w, "NotFound")]
    /\ UNCHANGED <<user, room, conns, connection, signal, nextId, calls, deleted, expired, roomVars, appVars,
                   messages, clock, fwd, storeUp, outages>>

\* part_003:230-234, data.ts:363-368  getSession: hget occupancy[owner]; NotFound
\* unless it is this id, Forbidden when the session belongs to another user
setup_hget(f) ==
    /\ ws[f].pc = "su_link"
    /\ storeUp
    /\ LET w == ws[f] IN
       ws' = [ws EXCEPT ![f] =
          IF ~Linked(conns[w.session.room][w.session.owner], w.id)
          THEN SetupFailed(w, "NotFound")
          ELSE IF w.session.owner # w.user THEN SetupFailed(w, "Forbidden")
          ELSE [w EXCEPT !.pc = "su_room"]]
    /\ UNCHANGED <<user, room, conns, connection, signal, nextId, calls, deleted, expired, roomVars, appVars,
                   messages, clock, fwd, storeUp, outages>>

\* part_003:298-302  the frames a client can send as its i-th: a text frame
\* holding the JSON of a chat, leave or ice input or of an object without a
\* type, or a binary frame
Input(t, i) == [type |-> t, n |-> i]
Frames(i) == {Stringify(Input(t, i)) : t \in {"chat", "leave", "ice", NoSig}}
                \cup {<<"buffer", Input("chat", i)>>}

\* part_003:299  typeof data === "string"
IsString(data) == data[1] = "json"

\* part_003:303-307  the parsed input is an object with a string type
WellFormed(input) == input.type # NoSig

\* part_003:275-295  deliver once the queue is gone: a chat goes to
\* store.writeMessage and a signal to store.writeSignal, neither awaited (the
\* commands wait their turn in `out`); leave closes the socket
Handle(w, input) ==
    LET d == [w EXCEPT !.delivered = Append(@, input)] IN
    IF input.type = "leave" THEN CloseSocket(d)
    ELSE IF input.type \in {"chat"} \cup Signals THEN [d EXCEPT !.out = Append(@, input)]
    ELSE d

\* seeded fault: deliver does not look at the queue
deliver_NoQueue(w, input) ==
    IF w.room = NoRoom THEN w
    ELSE Handle(w, input)

\* part_003:270-275  deliver: push to the queue while there is one, return
\* when room is not set
deliver(w, input) ==
    IF w.queueing THEN [w EXCEPT !.queue = Append(@, input)]
    ELSE IF w.room = NoRoom THEN w
    ELSE Handle(w, input)

\* part_003:261-267  setup takes the queue away and delivers what it held
RECURSIVE DeliverQueued(_, _)
DeliverQueued(w, queued) ==
    IF queued = <<>> THEN w
    ELSE DeliverQueued(deliver(w, Head(queued)), Tail(queued))

\* part_003:236-267  setup: store.getRoom("id", session.room); then forwardEvents
\* is started and the join message is handed to writeMessage, neither awaited,
\* and the queued inputs are delivered
setup_getRoom(f) ==
    /\ ws[f].pc = "su_room"
    /\ storeUp
    /\ LET w == ws[f]
           r == w.session.room
       IN IF room[r] = NoRoomRec
          THEN /\ ws' = [ws EXCEPT ![f] = SetupFailed(w, "NotFound")]
               /\ UNCHANGED fwd
          ELSE /\ ws' = [ws EXCEPT ![f] =
                     DeliverQueued([w EXCEPT !.pc = "ready", !.room = r, !.join = TRUE,
                                             !.queueing = FALSE, !.queue = <<>>], w.queue)]
               /\ fwd' = [fwd EXCEPT ![f] =
                     [IdleForwarder EXCEPT !.pc = "fw_acquire", !.room = r, !.actor = w.user,
                                           !.connection = w.id]]
    /\ UNCHANGED <<user, room, conns, connection, signal, nextId, calls, deleted, expired, roomVars, appVars,
                   messages, clock, storeUp, outages>>

\* part_003:253-259  the join message of setup reaches the room stream
setup_writeMessage(f) ==
    /\ ws[f].join
    /\ storeUp
    /\ messages' = WriteMessage(ws[f].room, "join", ws[f].user, ws[f].id)
    /\ ws' = [ws EXCEPT ![f].join = FALSE]
    /\ UNCHANGED <<user, room, conns, connection, signal, nextId, calls, deleted, expired, roomVars, appVars,
                   clock, fwd, storeUp, outages>>

\* part_003:298-315  ws.on("message"): the i-th frame arrives; a frame that is
\* not a string is ignored, an input that is not well formed closes the socket
\* and the error is passed on, any other input goes to deliver
ws_message(f, data) ==
    /\ ws[f].open
    /\ Len(ws[f].received) < MaxInput
    /\ data \in Frames(Len(ws[f].received) + 1)
    /\ LET w == [ws[f] EXCEPT !.received = Append(@, data)] IN
       ws' = [ws EXCEPT ![f] =
          IF ~IsString(data) THEN w
          ELSE IF ~WellFormed(Parse(data)) THEN [CloseSocket(w) EXCEPT !.err = "TypeError"]
          ELSE deliver(w, Parse(data))]
    /\ UNCHANGED <<user, room, conns, connection, signal, nextId, calls, deleted, expired, roomVars, appVars,
                   messages, clock, fwd, storeUp, outages>>

\* part_003:279-285, data.ts:289-299  the xadd of a delivered chat input reaches
\* the room stream, after the commands sent before it on the same connection
deliver_writeMessage(f) ==
    /\ ws[f].out # <<>> /\ ~ws[f].join
    /\ Head(ws[f].out).type = "chat"
    /\ storeUp
    /\ messages' = WriteMessage(ws[f].room, "chat", ws[f].user, ws[f].id)
    /\ ws' = [ws EXCEPT ![f].out = Tail(@)]
    /\ UNCHANGED <<user, room, conns, connection, signal, nextId, calls, deleted, expired, roomVars, appVars,
                   clock, fwd, storeUp, outages>>

\* part_003:291-294, data.ts:398-409  the xadd of a delivered ice or sdp input
\* reaches the signal stream of the session
deliver_writeSignal(f, k) ==
    /\ ws[f].out # <<>> /\ ~ws[f].join
    /\ Head(ws[f].out).type \in Signals
    /\ storeUp
    /\ Store_writeSignal(k, ws[f].id, Head(ws[f].out).type)
    /\ ws' = [ws EXCEPT ![f].out = Tail(@)]
    /\ UNCHANGED <<messages, clock, fwd, storeUp, outages, roomVars, appVars>>

\* part_003:270-286  deliver: a chat input once setup is through
deliver_chat(f) ==
    /\ ws[f].pc = "ready" /\ ws[f].open
    /\ storeUp
    /\ Len(messages[ws[f].room]) < MaxMessage
    /\ messages' = WriteMessage(ws[f].room, "chat", ws[f].user, ws[f].id)
    /\ UNCHANGED <<user, room, conns, connection, signal, nextId, calls, deleted, expired, roomVars, appVars,
                   clock, ws, fwd, storeUp, outages>>

\* part_003:291-294  deliver: an ice or sdp input goes to store.writeSignal(id, input)
deliver_signal(f, k, s) ==
    /\ ws[f].pc = "ready" /\ ws[f].open
    /\ storeUp
    /\ Store_writeSignal(k, ws[f].id, s)
    /\ UNCHANGED fwdVars

\* data.ts:71-73, 289-309  Store.writeMessage(r, message) called for another
\* socket of the room: the join, chat or leave of user u on its session id
writeMessage_xadd(r, type, u, id) ==
    /\ storeUp
    /\ Len(messages[r]) < MaxMessage
    /\ id \in Written
    /\ connection[id] = [room |-> r, owner |-> u]
    /\ messages' = WriteMessage(r, type, u, id)
    /\ UNCHANGED <<user, room, conns, connection, signal, nextId, calls, deleted, expired, roomVars, appVars,
                   clock, ws, fwd, storeUp, outages>>

\* part_003:287-289, 317  the client closes the socket (or sends leave)
ws_close(f) ==
    /\ ws[f].open
    /\ ws' = [ws EXCEPT ![f] = CloseSocket(@)]
    /\ UNCHANGED <<user, room, conns, connection, signal, nextId, calls, deleted, expired, roomVars, appVars,
                   messages, clock, fwd, storeUp, outages>>

\* part_003:326-333  close handler: await store.writeMessage(room, leave); when
\* the write is rejected the handler ends there
close_writeMessage(f) ==
    /\ ws[f].close = "cl_leave"
    /\ IF storeUp
       THEN /\ messages' = WriteMessage(ws[f].room, "leave", ws[f].user, ws[f].id)
            /\ ws' = [ws EXCEPT ![f].close = "cl_delete"]
       ELSE /\ ws' = [ws EXCEPT ![f].close = "cl_failed"]
            /\ UNCHANGED messages
    /\ UNCHANGED <<user, room, conns, connection, signal, nextId, calls, deleted, expired, roomVars, appVars,
                   clock, fwd, storeUp, outages>>

\* part_003:334  close handler: await store.deleteSession(id)
close_deleteSession(f, k) ==
    /\ ws[f].close = "cl_delete"
    /\ storeUp
    /\ Store_deleteSession(k, ws[f].id)
    /\ ws' = [ws EXCEPT ![f].close = "cl_done"]
    /\ UNCHANGED <<messages, clock, fwd, storeUp, outages, roomVars, appVars>>

\* ------------------------------------------------------------ forwardEvents
\* data.ts:134-143  xread STREAMS room:<r>:messages [connection:<peer>:signal]
\* <messageCursor> [<peerCursor>]: the entries after each cursor, messages first
\* seeded fault: the entry at the cursor is returned again
EntriesAfter_Inclusive(stream, cursor) ==
    SelectSeq(stream, LAMBDA e : IdGt(e.id, cursor) \/ e.id = cursor)

EntriesAfter(stream, cursor) == SelectSeq(stream, LAMBDA e : IdGt(e.id, cursor))

\* seeded fault: the entries of a stream are handed over newest first
Tagged_Reversed(stream, kind, src) ==
    [i \in 1..Len(stream) |-> [kind |-> kind, src |-> src,
                               id |-> stream[Len(stream) + 1 - i].id,
                               fields |-> stream[Len(stream) + 1 - i].fields]]

\* the entries of one stream of a read, each with the stream it came from
Tagged(stream, kind, src) ==
    [i \in 1..Len(stream) |-> [kind |-> kind, src |-> src, id |-> stream[i].id,
                               fields |-> stream[i].fields]]

XRead(st) ==
    Tagged(EntriesAfter(messages[st.room], st.messageCursor), "room", 0)
    \o (IF st.peer = NoId THEN <<>>
        ELSE Tagged(EntriesAfter(signal[st.peer], st.peerCursor), "connection", st.peer))

\* data.ts:114-117  send: JSON to the destination; a socket that is not open drops it
Send(sent, open, item, data) ==
    IF open THEN Append(sent, [kind |-> item.kind, src |-> item.src, id |-> item.id,
                               data |-> Parse(Stringify(data))])
    ELSE sent

\* data.ts:217-227  the User object getUser returns: the id and the stored name
UserObject(id, n) == [id |-> id, name |-> n]

\* seeded fault: only the type and the user are sent on
Enriched_NoSession(data, u) == [data EXCEPT !.user = u, !.session = NoId]

\* data.ts:168  { ...data, user }: the message with the user in place of its id
Enriched(data, u) == [data EXCEPT !.user = u]

\* seeded fault: the leave of any session drops the peer
NextPeer_AnyLeave(st, data) ==
    IF data.type = "join" /\ data.user # st.actor THEN data.session
    ELSE IF data.type = "leave" THEN NoId
    ELSE st.peer

\* seeded fault: the actor's own join is taken for a peer's
NextPeer_OwnJoin(st, data) ==
    IF data.type = "join" THEN data.session
    ELSE IF data.type = "leave" /\ data.session = st.peer THEN NoId
    ELSE st.peer

\* seeded fault: a leave never drops the peer
NextPeer_KeepPeer(st, data) ==
    IF data.type = "join" /\ data.user # st.actor THEN data.session
    ELSE st.peer

\* data.ts:171-175  peer hand-off on join and leave
NextPeer(st, data) ==
    IF data.type = "join" /\ data.user # st.actor THEN data.session
    ELSE IF data.type = "leave" /\ data.session = st.peer THEN NoId
    ELSE st.peer

\* data.ts:146-183  the entries of a read are handled in order, without a pause,
\* up to the first message whose user is not in the cache (await getUser)
RECURSIVE Drain(_, _, _)
Drain(st, sent, open) ==
    IF st.batch = <<>> THEN [st |-> st, sent |-> sent]
    ELSE LET item == Head(st.batch)
             st1 == IF item.kind = "room" THEN [st EXCEPT !.messageCursor = item.id]
                    ELSE [st EXCEPT !.peerCursor = item.id]
             data == Parse(FieldOf(item.fields, "data"))
         IN IF data.type \in {"join", "leave", "chat"}
            THEN IF st.users[data.user] = "miss"
                 THEN [st |-> [st1 EXCEPT !.pc = "fw_user"], sent |-> sent]
                 ELSE Drain([st1 EXCEPT !.peer = NextPeer(st, data), !.batch = Tail(@)],
                            IF st.users[data.user] # "null"
                            THEN Send(sent, open, item,
                                      Enriched(data, UserObject(data.user, st.users[data.user])))
                            ELSE sent,
                            open)
            ELSE IF data.type \in Signals
            THEN Drain([st1 EXCEPT !.batch = Tail(@)], Send(sent, open, item, data), open)
            ELSE Drain([st1 EXCEPT !.batch = Tail(@)], sent, open)

\* seeded fault: the loop reads on whatever the state of the destination
LoopCheck_Forever(st, open) ==
    IF st.pc = "fw_user" THEN st ELSE [st EXCEPT !.pc = "fw_read"]

\* data.ts:133  while (dest.readyState === dest.OPEN): read again, or leave the loop
LoopCheck(st, open) ==
    IF st.pc = "fw_user" THEN st
    ELSE IF open THEN [st EXCEPT !.pc = "fw_read"]
    ELSE [st EXCEPT !.pc = "fw_release", !.result = "ok"]

\* seeded fault: the error leaves forwardEvents past the release
Thrown_Escapes(st) ==
    [st EXCEPT !.pc = "fw_done", !.result = "error", !.failed = st.pc, !.batch = <<>>]

\* a rejected store command (failed: the await it rejected at): the error
\* leaves the try block
Thrown(st) ==
    [st EXCEPT !.pc = "fw_release", !.result = "error", !.failed = st.pc, !.batch = <<>>]

\* data.ts:97  await this.pool.acquire()
forwardEvents_acquire(f) ==
    /\ fwd[f].pc = "fw_acquire"
    /\ fwd' = [fwd EXCEPT ![f].pc = "fw_verify", ![f].held = TRUE]
    /\ UNCHANGED <<user, room, conns, connection, signal, nextId, calls, deleted, expired, roomVars, appVars,
                   messages, clock, ws, storeUp, outages>>

\* seeded fault: the occupancy entry is not compared with the connection id
forwardEvents_hgetall_NoCheck(f) ==
    /\ fwd[f].pc = "fw_verify"
    /\ LET st == fwd[f]
           others == {u \in Users \ {st.actor} : conns[st.room][u] # NoId}
       IN IF ~storeUp
          THEN /\ fwd' = [fwd EXCEPT ![f] = Thrown(st)]
               /\ UNCHANGED ws
          ELSE /\ \E p \in {conns[st.room][u] : u \in others} \cup
                           (IF others = {} THEN {NoId} ELSE {}) :
                     fwd' = [fwd EXCEPT ![f] = LoopCheck([st EXCEPT !.peer = p], ws[f].open)]
               /\ UNCHANGED ws
    /\ UNCHANGED <<user, room, conns, connection, signal, nextId, calls, deleted, expired, roomVars, appVars,
                   messages, clock, storeUp, outages>>

\* seeded fault: the occupancy map is not searched for a peer
forwardEvents_hgetall_NoPeer(f) ==
    /\ fwd[f].pc = "fw_verify"
    /\ LET st == fwd[f] IN
       IF ~storeUp
       THEN /\ fwd' = [fwd EXCEPT ![f] = Thrown(st)]
            /\ UNCHANGED ws
       ELSE IF conns[st.room][st.actor] # st.connection
       THEN /\ fwd' = [fwd EXCEPT ![f] = [st EXCEPT !.pc = "fw_release", !.result = "ok"]]
            /\ ws' = [ws EXCEPT ![f] = CloseSocket(@)]
       ELSE /\ fwd' = [fwd EXCEPT ![f] = LoopCheck(st, ws[f].open)]
            /\ UNCHANGED ws
    /\ UNCHANGED <<user, room, conns, connection, signal, nextId, calls, deleted, expired, roomVars, appVars,
                   messages, clock, storeUp, outages>>

\* seeded fault: the actor's own entry is not skipped in the search for a peer
forwardEvents_hgetall_AnyOccupant(f) ==
    /\ fwd[f].pc = "fw_verify"
    /\ LET st == fwd[f]
           others == {u \in Users : conns[st.room][u] # NoId}
       IN IF ~storeUp
          THEN /\ fwd' = [fwd EXCEPT ![f] = Thrown(st)]
               /\ UNCHANGED ws
          ELSE IF conns[st.room][st.actor] # st.connection
          THEN /\ fwd' = [fwd EXCEPT ![f] = [st EXCEPT !.pc = "fw_release", !.result = "ok"]]
               /\ ws' = [ws EXCEPT ![f] = CloseSocket(@)]
          ELSE /\ \E p \in {conns[st.room][u] : u \in others} \cup
                           (IF others = {} THEN {NoId} ELSE {}) :
                     fwd' = [fwd EXCEPT ![f] = LoopCheck([st EXCEPT !.peer = p], ws[f].open)]
               /\ UNCHANGED ws
    /\ UNCHANGED <<user, room, conns, connection, signal, nextId, calls, deleted, expired, roomVars, appVars,
                   messages, clock, storeUp, outages>>

\* data.ts:120-133  hgetall room:<r>:connections; a stale connection closes the
\* destination and returns; otherwise another occupant becomes the peer
forwardEvents_hgetall(f) ==
    /\ fwd[f].pc = "fw_verify"
    /\ LET st == fwd[f]
           others == {u \in Users \ {st.actor} : conns[st.room][u] # NoId}
       IN IF ~storeUp
          THEN /\ fwd' = [fwd EXCEPT ![f] = Thrown(st)]
               /\ UNCHANGED ws
          ELSE IF conns[st.room][st.actor] # st.connection
          THEN /\ fwd' = [fwd EXCEPT ![f] = [st EXCEPT !.pc = "fw_release", !.result = "ok"]]
               /\ ws' = [ws EXCEPT ![f] = CloseSocket(@)]
          ELSE /\ \E p \in {conns[st.room][u] : u \in others} \cup
                           (IF others = {} THEN {NoId} ELSE {}) :
                     fwd' = [fwd EXCEPT ![f] = LoopCheck([st EXCEPT !.peer = p], ws[f].open)]
               /\ UNCHANGED ws
    /\ UNCHANGED <<user, room, conns, connection, signal, nextId, calls, deleted, expired, roomVars, appVars,
                   messages, clock, storeUp, outages>>

\* data.ts:143-185  the blocking xread returns (entries, or null after the
\* timeout) and its entries are handled
forwardEvents_xread(f) ==
    /\ fwd[f].pc = "fw_read"
    /\ LET st == fwd[f] IN
       IF ~storeUp
       THEN /\ fwd' = [fwd EXCEPT ![f] = Thrown(st)]
            /\ UNCHANGED ws
       ELSE LET out == Drain([st EXCEPT !.batch = XRead(st)], ws[f].sent, ws[f].open) IN
            /\ fwd' = [fwd EXCEPT ![f] = LoopCheck(out.st, ws[f].open)]
            /\ ws' = [ws EXCEPT ![f].sent = out.sent]
    /\ UNCHANGED <<user, room, conns, connection, signal, nextId, calls, deleted, expired, roomVars, appVars,
                   messages, clock, storeUp, outages>>

\* data.ts:104-112, 166  getUser on a cache miss: hgetall user:<id> on the
\* forwarder's connection, then the rest of the entries
forwardEvents_getUser(f) ==
    /\ fwd[f].pc = "fw_user"
    /\ LET st == fwd[f]
           u == Parse(FieldOf(Head(st.batch).fields, "data")).user
       IN IF ~storeUp
          THEN /\ fwd' = [fwd EXCEPT ![f] = Thrown(st)]
               /\ UNCHANGED ws
          ELSE LET st1 == [st EXCEPT !.pc = "fw_drain",
                                     !.users[u] = IF user[u] THEN name[u] ELSE "null"]
                   out == Drain(st1, ws[f].sent, ws[f].open)
               IN /\ fwd' = [fwd EXCEPT ![f] = LoopCheck(out.st, ws[f].open)]
                  /\ ws' = [ws EXCEPT ![f].sent = out.sent]
    /\ UNCHANGED <<user, room, conns, connection, signal, nextId, calls, deleted, expired, roomVars, appVars,
                   messages, clock, storeUp, outages>>

\* data.ts:186-188, part_003:247-251  finally: pool.release(redis); a rejected
\* forwardEvents makes the caller close the socket and pass the error on
forwardEvents_release(f) ==
    /\ fwd[f].pc = "fw_release"
    /\ fwd' = [fwd EXCEPT ![f].pc = "fw_done", ![f].held = FALSE, ![f].released = @ + 1]
    /\ ws' = [ws EXCEPT ![f] =
          IF fwd[f].result = "error" THEN [CloseSocket(@) EXCEPT !.err = "Error"] ELSE @]
    /\ UNCHANGED <<user, room, conns, connection, signal, nextId, calls, deleted, expired, roomVars, appVars,
                   messages, clock, storeUp, outages>>

\* ------------------------------------------------------------ environment
\* a millisecond passes on the store's clock
Tick ==
    /\ clock < MaxClock
    /\ clock' = clock + 1
    /\ UNCHANGED <<user, room, conns, connection, signal, nextId, calls, deleted, expired, roomVars, appVars,
                   messages, ws, fwd, storeUp, outages>>

\* the store becomes unreachable, and reachable again
StoreDown ==
    /\ storeUp /\ outages < MaxOutage
    /\ storeUp' = FALSE /\ outages' = outages + 1
    /\ UNCHANGED <<user, room, conns, connection, signal, nextId, calls, deleted, expired, roomVars, appVars,
                   messages, clock, ws, fwd>>

StoreBack ==
    /\ ~storeUp
    /\ storeUp' = TRUE
    /\ UNCHANGED <<user, room, conns, connection, signal, nextId, calls, deleted, expired, roomVars, appVars,
                   messages, clock, ws, fwd, outages>>

\* the session manager: createSession, getSession, deleteSession
Next ==
    \/ \E k \in Calls, r \in Rooms, a \in Users : createSession_hmget(k, r, a)
    \/ \E k \in Calls : createSession_hkeys(k)
    \/ \E k \in Calls : createSession_pipeline(k)
    \/ \E k \in Calls : createSession_addUserEvent(k)
    \/ \E k \in Calls, id \in ConnIds : getSession_hgetall(k, id)
    \/ \E k \in Calls : getSession_getUser(k)
    \/ \E k \in Calls : getSession_hget(k)
    \/ \E k \in Calls, id \in ConnIds : deleteSession_hgetall(k, id)
    \/ \E k \in Calls : deleteSession_watch(k)
    \/ \E k \in Calls : deleteSession_hget(k)
    \/ \E k \in Calls : deleteSession_exec(k)
    \/ \E k \in Calls : deleteSession_unwatch(k)
    \/ \E k \in Calls : deleteSession_del(k)

Spec == Init /\ [][Next]_vars

\* the session manager while keys reach their TTL
NextTTL ==
    \/ Next
    \/ \E u \in Users : ExpireUser(u)
    \/ \E r \in Rooms : ExpireRoom(r)
    \/ \E c \in ConnIds : ExpireConnection(c)
    \/ \E r \in Rooms : ExpireConns(r)

SpecTTL == InitUsed /\ [][NextTTL]_vars

\* the session manager while signals are written
NextSignal ==
    \/ Next
    \/ \E k \in Calls, id \in ConnIds, s \in Signals : writeSignal_xadd(k, id, s)
    \/ \E k \in Calls : writeSignal_pexpire(k)

SpecSignal == InitUsed /\ [][NextSignal]_vars

\* two users hold sessions in r1: the owner u1 (connection 1) and the guest u2
\* (connection 2); no websocket has been accepted yet
OwnerAndGuest ==
    /\ user = [u \in Users |-> TRUE]
    /\ room = [r \in Rooms |-> [owner |-> OwnerOf(r), slug |-> SlugOf(r)]]
    /\ conns = [r \in Rooms |-> [u \in Users |-> IF u = "u1" THEN 1 ELSE IF u = "u2" THEN 2 ELSE NoId]]
    /\ connection = [c \in ConnIds |->
          IF c = 1 THEN [room |-> "r1", owner |-> "u1"]
          ELSE IF c = 2 THEN [room |-> "r1", owner |-> "u2"] ELSE NoConnRec]
    /\ signal = [c \in ConnIds |-> <<>>]
    /\ nextId = 2
    /\ calls = [k \in Calls |-> IdleCall]
    /\ deleted = {}
    /\ expired = NoneExpired

InitSessions == NoSockets /\ OwnerAndGuest

\* the followed socket: setup, its forwarder, its close handler and the
\* deleteSession call that handler makes
SocketSteps ==
    \/ \E f \in Sockets, u \in Users, id \in ConnIds : ws_connect(f, u, id)
    \/ \E f \in Sockets : setup_hgetall(f)
    \/ \E f \in Sockets : setup_getUser(f)
    \/ \E f \in Sockets : setup_hget(f)
    \/ \E f \in Sockets : setup_getRoom(f)
    \/ \E f \in Sockets : setup_writeMessage(f)
    \/ \E f \in Sockets : ws_close(f)
    \/ \E f \in Sockets : close_writeMessage(f)
    \/ \E f \in Sockets, k \in Calls : close_deleteSession(f, k)
    \/ \E f \in Sockets : forwardEvents_acquire(f)
    \/ \E f \in Sockets : forwardEvents_hgetall(f)
    \/ \E f \in Sockets : forwardEvents_xread(f)
    \/ \E f \in Sockets : forwardEvents_getUser(f)
    \/ \E f \in Sockets : forwardEvents_release(f)

\* the commands of the close handler's deleteSession call; they wait while the
\* store is away.  (Its unwatch branch needs a second session of the same user
\* and belongs to Spec.)
DeleteSteps ==
    \/ \E k \in Calls : storeUp /\ deleteSession_watch(k)
    \/ \E k \in Calls : storeUp /\ deleteSession_hget(k)
    \/ \E k \in Calls : storeUp /\ deleteSession_exec(k)
    \/ \E k \in Calls : storeUp /\ deleteSession_del(k)

\* the socket while the store becomes unreachable and comes back
NextOutage ==
    \/ SocketSteps
    \/ DeleteSteps
    \/ StoreDown
    \/ StoreBack

SpecOutage == InitSessions /\ [][NextOutage]_vars

\* the socket relaying while the room owner's socket writes its join and leave
\* messages and its signals and chat inputs arrive
NextRelay ==
    \/ \E f \in Sockets, u \in Users, id \in ConnIds : ws_connect(f, u, id)
    \/ \E f \in Sockets : setup_hgetall(f)
    \/ \E f \in Sockets : setup_getUser(f)
    \/ \E f \in Sockets : setup_hget(f)
    \/ \E f \in Sockets : setup_getRoom(f)
    \/ \E f \in Sockets : setup_writeMessage(f)
    \/ \E f \in Sockets : deliver_chat(f)
    \/ \E f \in Sockets : forwardEvents_acquire(f)
    \/ \E f \in Sockets : forwardEvents_hgetall(f)
    \/ \E f \in Sockets : forwardEvents_xread(f)
    \/ \E f \in Sockets : forwardEvents_getUser(f)
    \/ \E r \in Rooms, t \in {"join", "leave"} :
          writeMessage_xadd(r, t, OwnerOf(r), conns[r][OwnerOf(r)])
    \/ \E r \in Rooms, s \in Signals : writeSignal_xadd(1, conns[r][OwnerOf(r)], s)
    \/ \E k \in Calls : writeSignal_pexpire(k)

SpecRelay == InitSessions /\ [][NextRelay]_vars

\* the socket relaying while its peer's socket writes signals, another socket
\* opened for the peer's session closes (its close handler calls deleteSession
\* for that session) and the clock advances
NextStale ==
    \/ \E f \in Sockets, u \in Users, id \in ConnIds : ws_connect(f, u, id)
    \/ \E f \in Sockets : setup_hgetall(f)
    \/ \E f \in Sockets : setup_getUser(f)
    \/ \E f \in Sockets : setup_hget(f)
    \/ \E f \in Sockets : setup_getRoom(f)
    \/ \E f \in Sockets : setup_writeMessage(f)
    \/ \E f \in Sockets : forwardEvents_acquire(f)
    \/ \E f \in Sockets : forwardEvents_hgetall(f)
    \/ \E f \in Sockets : forwardEvents_xread(f)
    \/ \E f \in Sockets : forwardEvents_getUser(f)
    \/ \E f \in Sockets, s \in Signals :
          fwd[f].peer # NoId /\ writeSignal_xadd(1, fwd[f].peer, s)
    \/ \E k \in Calls : writeSignal_pexpire(k)
    \/ \E f \in Sockets : fwd[f].peer # NoId /\ deleteSession_hgetall(2, fwd[f].peer)
    \/ DeleteSteps
    \/ Tick

SpecStale == InitSessions /\ [][NextStale]_vars

\* the socket up to its first reads, while the socket of the other session
\* closes before the forwarder has looked at the occupancy map and signals are
\* written to either session
NextVerify ==
    \/ \E f \in Sockets, u \in Users, id \in ConnIds : ws_connect(f, u, id)
    \/ \E f \in Sockets : setup_hgetall(f)
    \/ \E f \in Sockets : setup_getUser(f)
    \/ \E f \in Sockets : setup_hget(f)
    \/ \E f \in Sockets : setup_getRoom(f)
    \/ \E f \in Sockets : setup_writeMessage(f)
    \/ \E f \in Sockets : forwardEvents_acquire(f)
    \/ \E f \in Sockets : forwardEvents_hgetall(f)
    \/ \E f \in Sockets : forwardEvents_xread(f)
    \/ \E f \in Sockets : forwardEvents_getUser(f)
    \/ \E f \in Sockets : forwardEvents_release(f)
    \/ \E f \in Sockets, id \in ConnIds :
          /\ fwd[f].pc \in {"idle", "fw_acquire", "fw_verify"} /\ id # ws[f].id
          /\ deleteSession_hgetall(2, id)
    \/ DeleteSteps
    \/ \E id \in ConnIds, s \in Signals : writeSignal_xadd(1, id, s)
    \/ \E k \in Calls : writeSignal_pexpire(k)

SpecVerify == InitSessions /\ [][NextVerify]_vars

\* the id of a session that was deleted before the behaviour starts
GoneId == MaxConn + 1

\* the room has a history: the owner u1 (connection 1) opened its socket, a
\* guest u3 joined, opened its socket and closed it again, so that its session
\* was deleted; then u2 joined as the guest (connection 2).  The room stream
\* holds the messages those sockets wrote
InitReplay ==
    /\ NoSocketsYet
    /\ OwnerAndGuest
    /\ messages = [r \in Rooms |->
          <<[id |-> <<0, 1>>, fields |-> Fields("join", 0, MessageData("join", "u1", 1))],
            [id |-> <<0, 2>>, fields |-> Fields("join", 0, MessageData("join", "u3", GoneId))],
            [id |-> <<0, 3>>, fields |-> Fields("leave", 0, MessageData("leave", "u3", GoneId))]>>]

\* a socket that replays the history of its room while the owner's socket
\* writes signals
NextReplay ==
    \/ SocketSteps
    \/ DeleteSteps
    \/ \E r \in Rooms, s \in Signals : writeSignal_xadd(1, conns[r][OwnerOf(r)], s)
    \/ \E k \in Calls : writeSignal_pexpire(k)

SpecReplay == InitReplay /\ [][NextReplay]_vars

\* the socket relaying chats and the owner's joins and leaves while user
\* records reach their TTL
NextEnrich ==
    \/ \E f \in Sockets, u \in Users, id \in ConnIds : ws_connect(f, u, id)
    \/ \E f \in Sockets : setup_hgetall(f)
    \/ \E f \in Sockets : setup_getUser(f)
    \/ \E f \in Sockets : setup_hget(f)
    \/ \E f \in Sockets : setup_getRoom(f)
    \/ \E f \in Sockets : setup_writeMessage(f)
    \/ \E f \in Sockets : deliver_chat(f)
    \/ \E f \in Sockets : ws_close(f)
    \/ \E f \in Sockets : forwardEvents_acquire(f)
    \/ \E f \in Sockets : forwardEvents_hgetall(f)
    \/ \E f \in Sockets : forwardEvents_xread(f)
    \/ \E f \in Sockets : forwardEvents_getUser(f)
    \/ \E f \in Sockets : forwardEvents_release(f)
    \/ \E r \in Rooms, t \in {"join", "leave"} :
          writeMessage_xadd(r, t, OwnerOf(r), conns[r][OwnerOf(r)])
    \/ \E u \in Users : ExpireUser(u)

SpecEnrich == InitSessions /\ [][NextEnrich]_vars

\* ------------------------------------------------------------ the endpoints
\* part_003:384  actor(req): the user the auth middleware has resolved (the
\* requests followed are those of the room owner), or none
Actors == {"u1", NoUser}

\* part_003:153, 164, 189, 218-221  throw new Unauthorized(): the endpoint answers
\* and nothing else happens
Unauthorized(e) ==
    /\ resp' = [resp EXCEPT ![e] = "Unauthorized"]
    /\ UNCHANGED <<sessionVars, roomVars, name, ttl, messages, clock, ws, fwd, storeUp, outages>>

\* part_003:149-159  PUT /api/user
PUT_api_user(k, a, n) ==
    IF a = NoUser THEN Unauthorized("updateUser")
    ELSE user[a] /\ updateUser_watch(k, a, n)

\* part_003:161-184  POST /api/room
POST_api_room(n, a) ==
    IF a = NoUser THEN Unauthorized("createRoom")
    ELSE user[a] /\ createRoom_getUser(n, a)

\* part_003:186-214  POST /api/room/:slug/join, r the room the slug stands for
POST_api_room_join(k, r, a) ==
    IF a = NoUser THEN Unauthorized("createSession")
    ELSE user[a] /\ createSession_hmget(k, r, a)

\* seeded fault: the socket is set up before the actor is looked at
WS_api_session_NoCheck(f, a, id) == ws_connect(f, a, id)

\* part_003:216-229  the websocket endpoint /api/session/:id
WS_api_session(f, a, id) ==
    IF a = NoUser THEN Unauthorized("session")
    ELSE user[a] /\ ws_connect(f, a, id)

\* requests with and without an actor arriving at the endpoints, and the
\* calls they start running to their end; updateUser runs on pooled connection
\* 1 and createSession on 2, and one createRoom is followed
NextAuth ==
    \/ \E a \in Actors, n \in Names : PUT_api_user(1, a, n)
    \/ \E a \in Actors : POST_api_room(RoomName[1], a)
    \/ \E r \in Rooms, a \in Actors : POST_api_room_join(2, r, a)
    \/ \E f \in Sockets, a \in Actors, id \in ConnIds : WS_api_session(f, a, id)
    \/ \E k \in Calls : updateUser_exists(k)
    \/ \E k \in Calls : updateUser_exec(k)
    \/ \E k \in Calls : updateUser_getUser(k)
    \/ \E n \in NewRooms, slug \in Slugs : allocateSlug_hsetnx(n, slug)
    \/ \E n \in NewRooms : createRoom_hmset(n)
    \/ \E n \in NewRooms : createRoom_pexpire(n)
    \/ \E k \in Calls : createSession_hkeys(k)
    \/ \E k \in Calls : createSession_pipeline(k)
    \/ \E k \in Calls : createSession_addUserEvent(k)
    \/ \E f \in Sockets : setup_hgetall(f)
    \/ \E f \in Sockets : setup_getUser(f)
    \/ \E f \in Sockets : setup_hget(f)
    \/ \E f \in Sockets : setup_getRoom(f)
    \/ \E f \in Sockets : setup_writeMessage(f)

SpecAuth == Init /\ [][NextAuth]_vars

\* createRoom calls running side by side while users and rooms reach their TTL
NextRoom ==
    \/ \E n \in NewRooms, u \in Creators : createRoom_getUser(n, u)
    \/ \E n \in NewRooms, slug \in Slugs : allocateSlug_hsetnx(n, slug)
    \/ \E n \in NewRooms : createRoom_hmset(n)
    \/ \E n \in NewRooms : createRoom_pexpire(n)
    \/ \E n \in NewRooms : ExpireCreated(n)
    \/ \E u \in Users : ExpireUser(u)

SpecRoom == Init /\ [][NextRoom]_vars

\* a room is created and expires while it and the room of Rooms are looked up
\* by id and by slug and the clock advances
NextLookup ==
    \/ createRoom_getUser(RoomName[1], "u1")
    \/ \E n \in NewRooms, slug \in Slugs : allocateSlug_hsetnx(n, slug)
    \/ \E n \in NewRooms : createRoom_hmset(n)
    \/ \E n \in NewRooms : createRoom_pexpire(n)
    \/ \E n \in NewRooms : ExpireCreated(n)
    \/ \E id \in {RoomName[1]} \cup Rooms : getRoom_id(1, id)
    \/ \E slug \in Slugs : getRoom_resolveSlug(2, slug)
    \/ getRoom_hgetall(2)
    \/ Tick

SpecLookup == Init /\ [][NextLookup]_vars

\* updateUser calls running side by side while the user keys age, expire and
\* are given their lifetime again by user events
NextUser ==
    \/ \E k \in Calls, u \in Users, n \in Names : updateUser_watch(k, u, n)
    \/ \E k \in Calls : updateUser_exists(k)
    \/ \E k \in Calls : updateUser_exec(k)
    \/ \E k \in Calls : updateUser_getUser(k)
    \/ \E u \in Users : addUserEvent_pexpire(u)
    \/ AgeUsers

SpecUser == Init /\ [][NextUser]_vars

\* the socket and its close handler while the room owner's socket writes its
\* join and leave messages, and another socket opened for the same session
\* closes (its close handler calls deleteSession for that session too)
NextLeave ==
    \/ SocketSteps
    \/ DeleteSteps
    \/ \E k \in Calls : deleteSession_unwatch(k)
    \/ \E r \in Rooms, t \in {"join", "leave"} :
          writeMessage_xadd(r, t, OwnerOf(r), conns[r][OwnerOf(r)])
    \/ \E f \in Sockets : ws[f].pc = "ready" /\ deleteSession_hgetall(2, ws[f].id)

SpecLeave == InitSessions /\ [][NextLeave]_vars

\* what the server does by itself once started: the awaits of setup, of the
\* close handler and of its deleteSession call resolve, and the forwarder's
\* commands return (the blocking read after a second at the latest)
ServerSteps ==
    \/ \E f \in Sockets : setup_hgetall(f)
    \/ \E f \in Sockets : setup_getUser(f)
    \/ \E f \in Sockets : setup_hget(f)
    \/ \E f \in Sockets : setup_getRoom(f)
    \/ \E f \in Sockets : setup_writeMessage(f)
    \/ \E f \in Sockets : close_writeMessage(f)
    \/ \E f \in Sockets, k \in Calls : close_deleteSession(f, k)
    \/ \E k \in Calls : deleteSession_unwatch(k)
    \/ DeleteSteps
ForwarderSteps ==
    \/ \E f \in Sockets : forwardEvents_acquire(f)
    \/ \E f \in Sockets : forwardEvents_hgetall(f)
    \/ \E f \in Sockets : forwardEvents_xread(f)
    \/ \E f \in Sockets : forwardEvents_getUser(f)
    \/ \E f \in Sockets : forwardEvents_release(f)

\* the guest's socket from its connect to its end, while the client may close
\* it and another socket opened for the same session closes
NextClose ==
    \/ \E f \in Sockets : ws_connect(f, "u2", 2)
    \/ \E f \in Sockets : ws_close(f)
    \/ ServerSteps
    \/ ForwarderSteps
    \/ \E f \in Sockets : /\ ws[f].pc = "ready" /\ connection[ws[f].id] # NoConnRec
                           /\ deleteSession_hgetall(2, ws[f].id)

SpecClose == InitSessions /\ [][NextClose]_vars

\* the socket opened for the guest's session by the guest or by the owner,
\* while the client sends frames from the moment the socket is accepted
NextQueue ==
    \/ \E f \in Sockets, u \in {"u1", "u2"} : ws_connect(f, u, 2)
    \/ \E f \in Sockets : \E data \in Frames(Len(ws[f].received) + 1) : ws_message(f, data)
    \/ \E f \in Sockets : ws_close(f)
    \/ \E f \in Sockets : setup_hgetall(f)
    \/ \E f \in Sockets : setup_getUser(f)
    \/ \E f \in Sockets : setup_hget(f)
    \/ \E f \in Sockets : setup_getRoom(f)
    \/ \E f \in Sockets : setup_writeMessage(f)
    \/ \E f \in Sockets : close_writeMessage(f)
    \/ \E f \in Sockets : close_deleteSession(f, 2)
    \/ DeleteSteps
    \/ \E f \in Sockets : deliver_writeMessage(f)
    \/ \E f \in Sockets : deliver_writeSignal(f, 1)
    \/ \E k \in Calls : writeSignal_pexpire(k)

SpecQueue == InitSessions /\ [][NextQueue]_vars

\* SpecClose with the event loop running every continuation that is ready;
\* what clients do (connect, close, write) is under no obligation
FairClose == SpecClose /\ WF_vars(ServerSteps) /\ WF_vars(ForwarderSteps)

TypeOK ==
    /\ user \in [Users -> BOOLEAN]
    /\ conns \in [Rooms -> [Users -> ConnIds \cup {NoId}]]
    /\ nextId \in 0..MaxConn
    /\ deleted \subseteq ConnIds

\* ================================================================ claims
\* the step taken is a step of call k (only k's own steps move its pc)
StepOf(k) == calls'[k].pc # calls[k].pc \/ calls'[k].op # calls[k].op
             \/ calls'[k].id # calls[k].id \/ calls'[k].user # calls[k].user
             \/ calls'[k].res # calls[k].res

\* entries of room r's occupancy map held by users other than the room owner
GuestEntries(r) == {u \in Users : u # OwnerOf(r) /\ conns[r][u] # NoId}

\* what the three reads of getSession yield when all are made in this state
GetSessionNow(c) ==
    IF connection[c] = NoConnRec \/ ~user[connection[c].owner] THEN Absent
    ELSE IF Linked(conns[connection[c].room][connection[c].owner], c)
         THEN [NoResult EXCEPT !.status = "found", !.room = connection[c].room,
                               !.owner = connection[c].owner]
         ELSE Absent

\* C1: in every reachable state every room's occupancy map holds at most one
\* entry for a user that is not the room owner (and, being keyed by user id,
\* at most one for the owner), whatever the interleaving of createSession calls.
C1_AtMostOneGuest == \A r \in Rooms : Cardinality(GuestEntries(r)) <= 1

\* C2: a getSession(id) call returns {room, owner} exactly when its read of the
\* occupancy map finds occupancy[owner] = id; otherwise it returns absent, also
\* while the record connection:<id> still exists.
C2_GetSessionOnlyLinked ==
    [][\A k \in Calls :
         (calls'[k].op = "getSession" /\ calls'[k].pc = "done" /\ StepOf(k)) =>
            (/\ calls'[k].res.status \in {"found", "absent"}
             /\ (calls'[k].res.status = "found") =>
                   (/\ calls[k].pc = "gs_link"
                    /\ calls'[k].res.room = calls[k].room
                    /\ calls'[k].res.owner = calls[k].owner
                    /\ conns[calls[k].room][calls[k].owner] = calls[k].id)
             /\ (calls[k].pc = "gs_link" /\ conns[calls[k].room][calls[k].owner] # calls[k].id) =>
                   (calls'[k].res = Absent))]_vars

\* a getSession call returned absent although the record and its owner's user exist
C2_Witness ==
    \E k \in Calls :
        /\ calls[k].op = "getSession" /\ calls[k].pc = "done" /\ calls[k].res = Absent
        /\ connection[calls[k].id] # NoConnRec
        /\ user[connection[calls[k].id].owner]
        /\ conns[connection[calls[k].id].room][connection[calls[k].id].owner] # calls[k].id

\* C3: once a deleteSession(id) call has completed, every getSession(id) that
\* starts afterwards returns absent, whatever else has run in between.
C3_DeletedStaysAbsent ==
    [][\A k \in Calls :
         (calls'[k].op = "getSession" /\ Free(k) /\ StepOf(k) /\ calls'[k].id \in deleted) =>
            calls'[k].pc = "done" /\ calls'[k].res = Absent]_vars

\* deleteSession(id) returned, a later writeSignal re-created the signal stream
\* of id, and a getSession(id) call returned absent
C3_Witness ==
    \E k1, k2 \in Calls :
        /\ calls[k1].op = "deleteSession" /\ calls[k1].pc = "done" /\ calls[k1].res = Ok
        /\ calls[k2].op = "getSession" /\ calls[k2].pc = "done" /\ calls[k2].res = Absent
        /\ calls[k2].id = calls[k1].id
        /\ signal[calls[k1].id] # <<>>

\* C6: of two concurrent createSession(room, actor) calls by the same actor at
\* most one succeeds, and a createSession never writes over an occupancy entry
\* that appeared after it read the occupancy map.
C6_NoConcurrentRejoin ==
    /\ \A k \in Calls :
          (calls[k].op = "createSession" /\ calls[k].pc = "cs_write")
             => conns[calls[k].room][calls[k].user] = NoId
    /\ \A k1, k2 \in Calls :
          (/\ k1 # k2
           /\ calls[k1].op = "createSession" /\ calls[k2].op = "createSession"
           /\ calls[k1].pc = "cs_event" /\ calls[k2].pc = "cs_event"
           /\ calls[k1].room = calls[k2].room)
             => calls[k1].user # calls[k2].user

\* C4: a createSession(room, actor) by a non-owner actor whose read of the
\* occupancy map finds an entry of another non-owner user fails with Conflict,
\* writes no connection record and leaves the occupancy map unchanged.
C4_SecondGuestConflict ==
    [][\A k \in Calls :
         (/\ calls[k].op = "createSession" /\ calls[k].pc = "cs_keys" /\ StepOf(k)
          /\ calls[k].user # OwnerOf(calls[k].room)
          /\ GuestEntries(calls[k].room) \ {calls[k].user} # {}) =>
            (/\ calls'[k].pc = "done"
             /\ calls'[k].res = Fail("Conflict")
             /\ connection' = connection
             /\ conns' = conns
             /\ nextId' = nextId)]_vars

\* a guest's createSession ended in Conflict while another guest holds the room
C4_Witness ==
    \E k \in Calls :
        /\ calls[k].op = "createSession" /\ calls[k].pc = "done"
        /\ calls[k].res = Fail("Conflict")
        /\ calls[k].user # OwnerOf(calls[k].room)
        /\ conns[calls[k].room][calls[k].user] = NoId
        /\ GuestEntries(calls[k].room) # {}
        /\ nextId = 1

\* C5: a createSession(room, actor) whose read of the occupancy map finds an
\* entry for actor fails with Conflict, for the host and for a guest, writes no
\* connection record and leaves occupancy[actor] unchanged.
C5_RejoinConflict ==
    [][\A k \in Calls :
         (/\ calls[k].op = "createSession" /\ calls[k].pc = "cs_keys" /\ StepOf(k)
          /\ conns[calls[k].room][calls[k].user] # NoId) =>
            (/\ calls'[k].pc = "done"
             /\ calls'[k].res = Fail("Conflict")
             /\ connection' = connection
             /\ conns'[calls[k].room][calls[k].user] = conns[calls[k].room][calls[k].user]
             /\ nextId' = nextId)]_vars

\* the host's second createSession ended in Conflict while the host is still linked
C5_Witness ==
    \E k \in Calls :
        /\ calls[k].op = "createSession" /\ calls[k].pc = "done"
        /\ calls[k].res = Fail("Conflict")
        /\ calls[k].user = OwnerOf(calls[k].room)
        /\ conns[calls[k].room][calls[k].user] # NoId

\* the write step of createSession: a fresh id, its record, the occupancy link
C7_WriteStep(k) ==
    LET c == calls[k] IN
    /\ connection[c.id] = NoConnRec
    /\ c.id \notin deleted
    /\ \A r \in Rooms, u \in Users : conns[r][u] # c.id
    /\ connection'[c.id] = [room |-> c.room, owner |-> c.user]
    /\ \A d \in ConnIds \ {c.id} : connection'[d] = connection[d]
    /\ conns'[c.room][c.user] = c.id
    /\ \A r \in Rooms, u \in Users :
          (r # c.room \/ u # c.user) => conns'[r][u] = conns[r][u]

\* C7 (as claimed): a successful createSession(room, actor) writes a fresh id c,
\* the record {room, owner: actor} and occupancy[actor] = c, changes no other
\* occupancy entry, and getSession(c) yields {room, owner: actor} for as long as
\* deleteSession(c) has not run and occupancy[actor] is still c.
C7_SessionValidUntilUnlinked ==
    [][/\ \A k \in Calls :
            (calls[k].op = "createSession" /\ calls[k].pc = "cs_write" /\ StepOf(k))
               => C7_WriteStep(k)
       /\ \A r \in Rooms, u \in Users :
            (conns'[r][u] # NoId /\ conns'[r][u] \notin deleted')
               => (GetSessionNow(conns[r][u])' =
                      [NoResult EXCEPT !.status = "found", !.room = r, !.owner = u])]_vars

\* C7 (amended): the same, for as long as deleteSession(c) has not run,
\* occupancy[actor] is still c, the record connection:<c> has not expired and
\* the user record of actor exists.
C7_SessionValidUntilUnlinkedOrExpired ==
    [][/\ \A k \in Calls :
            (calls[k].op = "createSession" /\ calls[k].pc = "cs_write" /\ StepOf(k))
               => C7_WriteStep(k)
       /\ \A r \in Rooms, u \in Users :
            (/\ conns'[r][u] # NoId
             /\ conns'[r][u] \notin deleted'
             /\ conns'[r][u] \notin expired'.connections
             /\ user'[u])
               => (GetSessionNow(conns[r][u])' =
                      [NoResult EXCEPT !.status = "found", !.room = r, !.owner = u])]_vars

\* a guest's createSession has returned session c and a getSession(c) call found it
C7_Witness ==
    \E k1, k2 \in Calls :
        /\ calls[k1].op = "createSession" /\ calls[k1].pc = "done"
        /\ calls[k1].res.status = "session"
        /\ calls[k1].user # OwnerOf(calls[k1].room)
        /\ conns[calls[k1].room][calls[k1].user] = calls[k1].res.id
        /\ calls[k2].op = "getSession" /\ calls[k2].pc = "done"
        /\ calls[k2].id = calls[k1].res.id
        /\ calls[k2].res = [NoResult EXCEPT !.status = "found", !.room = calls[k1].room,
                                            !.owner = calls[k1].user]

\* C8: the role a successful createSession returns is host exactly when the
\* actor is the room's owner, guest otherwise, and a connection record holds
\* only room and owner.
C8_RoleDerived ==
    /\ \A k \in Calls :
          (calls[k].op = "createSession" /\ calls[k].pc = "done"
           /\ calls[k].res.status = "session") =>
             /\ calls[k].res.role \in {"host", "guest"}
             /\ (calls[k].res.role = "host") <=> (calls[k].user = OwnerOf(calls[k].room))
    /\ \A c \in ConnIds : DOMAIN connection[c] = {"room", "owner"}

\* the owner's and a guest's createSession have both returned
C8_Witness ==
    \E k1, k2 \in Calls :
        /\ calls[k1].op = "createSession" /\ calls[k1].pc = "done"
        /\ calls[k1].res.status = "session" /\ calls[k1].res.role = "host"
        /\ calls[k2].op = "createSession" /\ calls[k2].pc = "done"
        /\ calls[k2].res.status = "session" /\ calls[k2].res.role = "guest"

\* C9: createSession on a room whose record is absent fails with NotFound and
\* changes nothing in the store.
C9_NoRoomNotFound ==
    [][\A k \in Calls :
         (/\ calls'[k].op = "createSession" /\ Free(k) /\ StepOf(k)
          /\ room[calls'[k].room] = NoRoomRec) =>
            (/\ calls'[k].pc = "done"
             /\ calls'[k].res = Fail("NotFound")
             /\ UNCHANGED <<user, room, conns, connection, signal, nextId>>)]_vars

\* a createSession on the expired room ended in NotFound
C9_Witness ==
    \E k \in Calls :
        /\ calls[k].op = "createSession" /\ calls[k].pc = "done"
        /\ calls[k].res = Fail("NotFound")
        /\ room[calls[k].room] = NoRoomRec

\* C10: a deleteSession(id) step taken while the owner's occupancy entry is
\* missing or points at another id leaves the occupancy map unchanged, and a
\* deleteSession that found its record ends without error.
C10_SupersededDeleteIsNoop ==
    [][\A k \in Calls :
         (/\ calls[k].op = "deleteSession"
          /\ calls[k].pc \in {"ds_watch", "ds_current", "ds_exec", "ds_unwatch", "ds_del"}
          /\ calls'[k].pc # calls[k].pc) =>
            (/\ (conns[calls[k].room][calls[k].owner] # calls[k].id) => (conns' = conns)
             /\ (calls'[k].pc = "done") => (calls'[k].res = Ok))]_vars

\* a deleteSession of a superseded connection returned and the superseding entry stays
C10_Witness ==
    \E k \in Calls :
        /\ calls[k].op = "deleteSession" /\ calls[k].pc = "done" /\ calls[k].res = Ok
        /\ conns[calls[k].room][calls[k].owner] \notin {NoId, calls[k].id}
        /\ connection[conns[calls[k].room][calls[k].owner]] =
              [room |-> calls[k].room, owner |-> calls[k].owner]

\* C11: every deleteSession(id) that found the connection record ends by
\* deleting both the record connection:<id> and the stream connection:<id>:signal,
\* whether or not it removed the occupancy entry.
C11_DeleteRemovesRecordAndStream ==
    [][\A k \in Calls :
         (/\ calls[k].op = "deleteSession" /\ ~Free(k)
          /\ calls'[k].pc = "done") =>
            (/\ calls[k].pc = "ds_del"
             /\ calls'[k].res = Ok
             /\ connection'[calls[k].id] = NoConnRec
             /\ signal'[calls[k].id] = <<>>)]_vars

\* two deleteSession calls for one id both found the record and both returned:
\* only one of them removed the occupancy entry
C11_Witness ==
    \E k1, k2 \in Calls :
        /\ k1 # k2
        /\ calls[k1].op = "deleteSession" /\ calls[k1].pc = "done" /\ calls[k1].res = Ok
        /\ calls[k2].op = "deleteSession" /\ calls[k2].pc = "done" /\ calls[k2].res = Ok
        /\ calls[k1].id = calls[k2].id
        /\ connection[calls[k1].id] = NoConnRec
        /\ signal[calls[k1].id] = <<>>

\* C12: a deleteSession(id) that finds no connection record for id, in particular
\* one that starts after a completed deleteSession(id), fails with NotFound and
\* changes nothing in the store, the occupancy map included.
C12_DeleteAbsentNotFound ==
    [][\A k \in Calls :
         (/\ calls'[k].op = "deleteSession" /\ Free(k) /\ StepOf(k)
          /\ (connection[calls'[k].id] = NoConnRec \/ calls'[k].id \in deleted)) =>
            (/\ calls'[k].pc = "done"
             /\ calls'[k].res = Fail("NotFound")
             /\ UNCHANGED <<user, room, conns, connection, signal, nextId>>)]_vars

\* a second deleteSession(id) ended in NotFound while the occupancy map still
\* holds the entry the first one failed to remove
C12_Witness ==
    \E k \in Calls :
        /\ calls[k].op = "deleteSession" /\ calls[k].pc = "done"
        /\ calls[k].res = Fail("NotFound")
        /\ calls[k].id \in deleted
        /\ \E r \in Rooms, u \in Users : conns[r][u] = calls[k].id

\* C13: a forwarder whose occupancy entry is not its connection id when it
\* checks closes the destination, sends nothing and goes to the release of its
\* connection; a forwarder that left the try block never reads or sends again
C13_StaleForwarderStops ==
    [][\A f \in Sockets :
         /\ (/\ fwd[f].pc = "fw_verify" /\ fwd'[f] # fwd[f] /\ storeUp
             /\ conns[fwd[f].room][fwd[f].actor] # fwd[f].connection) =>
                (/\ ~ws'[f].open
                 /\ ws'[f].sent = ws[f].sent
                 /\ fwd'[f].pc = "fw_release"
                 /\ fwd'[f].result = "ok")
         /\ (fwd[f].pc \in {"fw_release", "fw_done"}) =>
                (/\ fwd'[f].pc \in {"fw_release", "fw_done"}
                 /\ ws'[f].sent = ws[f].sent)]_vars

\* the session was unlinked by another socket's close handler before the
\* forwarder's check; the forwarder has ended without sending
C13_Witness ==
    \E f \in Sockets :
        /\ fwd[f].pc = "fw_done" /\ fwd[f].result = "ok" /\ fwd[f].peer = NoId
        /\ fwd[f].messageCursor = ZeroId
        /\ ws[f].sent = <<>> /\ ~ws[f].open /\ ws[f].close = "cl_leave"
        /\ conns[fwd[f].room][fwd[f].actor] # fwd[f].connection
        /\ calls[2].op = "deleteSession" /\ calls[2].res = Ok
        /\ messages[fwd[f].room] # <<>>
\* C18: a forwarder holds its pool connection from the acquire to the release
\* and has released it exactly once when it has ended, whichever way it ended
C18_ReleasedExactlyOnce ==
    \A f \in Sockets :
        /\ fwd[f].released \in {0, 1}
        /\ (fwd[f].pc = "fw_done") => (fwd[f].released = 1 /\ ~fwd[f].held)
        /\ (fwd[f].pc \in {"fw_verify", "fw_read", "fw_user", "fw_release"}) =>
               (fwd[f].released = 0 /\ fwd[f].held)
        /\ (fwd[f].pc \in {"idle", "fw_acquire"}) => (fwd[f].released = 0 /\ ~fwd[f].held)

\* a forwarder that relayed a message and then ended on a rejected store command
C18_Witness ==
    \E f \in Sockets :
        /\ fwd[f].pc = "fw_done" /\ fwd[f].result = "error"
        /\ fwd[f].messageCursor # ZeroId
        /\ fwd[f].released = 1 /\ ~fwd[f].held
\* C19: when the blocking read of a forwarder was rejected, the close handler
\* of its socket does not end before it has called deleteSession
C19_FailedReadDeletesSession ==
    [][\A f \in Sockets :
         (/\ fwd[f].failed = "fw_read" /\ fwd[f].pc = "fw_done"
          /\ ws[f].err = "Error" /\ ws[f].close = "cl_leave") =>
             (ws'[f].close \in {"cl_leave", "cl_delete"})]_vars
\* the items the step has added to what socket f was sent
NewlySent(f) == SubSeq(ws'[f].sent, Len(ws[f].sent) + 1, Len(ws'[f].sent))

\* C17: the close handler of a set-up socket appends a leave with the socket's
\* user id and session id to the room stream before it calls deleteSession for
\* that id, and the session record is gone when that call has ended; a
\* forwarder that relays a leave of the session that is its peer has no peer
\* afterwards
C17_LeaveThenDelete ==
    [][\A f \in Sockets :
         /\ (ws[f].close = "cl_leave" /\ ws'[f].close # "cl_leave") =>
                (/\ ws'[f].close = "cl_delete"
                 /\ Len(messages'[ws[f].room]) = Len(messages[ws[f].room]) + 1
                 /\ LET e == messages'[ws[f].room][Len(messages'[ws[f].room])] IN
                       /\ FieldOf(e.fields, "type") = "leave"
                       /\ Parse(FieldOf(e.fields, "data")) =
                             [type |-> "leave", user |-> ws[f].user, session |-> ws[f].id])
         /\ (ws[f].close = "cl_delete" /\ ws'[f].close # "cl_delete") =>
                (/\ ws'[f].close = "cl_done"
                 /\ \E k \in Calls : /\ Free(k) /\ calls'[k].op = "deleteSession"
                                      /\ calls'[k].id = ws[f].id)
         /\ (\A k \in Calls :
                (calls'[k].op = "deleteSession" /\ calls'[k].pc = "done"
                 /\ calls'[k].id = ws[f].id /\ ws'[f].close = "cl_done") =>
                    (connection'[ws[f].id] = NoConnRec))
         /\ LET new == NewlySent(f) IN
            (/\ new # <<>>
             /\ new[Len(new)].data.type = "leave"
             /\ new[Len(new)].data.session = fwd[f].peer
             /\ \A i \in 1..Len(new) : new[i].data.type # "join") =>
                (fwd'[f].peer = NoId /\ fwd[f].peer # NoId)]_vars

\* the guest's forwarder relayed the owner's leave and dropped it as peer; the
\* guest's socket then closed, its leave is the last entry of the room stream
\* and its session has been deleted by the close handler's call
C17_Witness ==
    \E f \in Sockets, k \in Calls :
        /\ ws[f].close = "cl_done" /\ ws[f].user = "u2" /\ ws[f].id = 2
        /\ ws[f].room # NoRoom
        /\ calls[k].op = "deleteSession" /\ calls[k].id = ws[f].id
        /\ calls[k].pc = "done" /\ calls[k].res = Ok
        /\ connection[ws[f].id] = NoConnRec /\ conns[ws[f].room][ws[f].user] = NoId
        /\ LET m == messages[ws[f].room] IN
              /\ m # <<>>
              /\ Parse(FieldOf(m[Len(m)].fields, "data")) =
                    [type |-> "leave", user |-> "u2", session |-> 2]
        /\ fwd[f].peer = NoId
        /\ \E i \in 1..Len(ws[f].sent) :
              /\ ws[f].sent[i].kind = "room"
              /\ ws[f].sent[i].data =
                    [type |-> "leave", user |-> UserObject("u1", "ann"), session |-> 1]
              /\ \A j \in 1..(i - 1) : ws[f].sent[j].data.type # "join"
Returned(f) ==
    LET new == NewlySent(f)
        rest == fwd'[f].batch
    IN [i \in 1..(Len(new) + Len(rest)) |->
          IF i <= Len(new) THEN <<new[i].kind, new[i].src, new[i].id>>
          ELSE <<rest[i - Len(new)].kind, rest[i - Len(new)].src, rest[i - Len(new)].id>>]

C16_AppendedSignalIsAhead ==
    [][\A f \in Sockets, id \in ConnIds :
         (/\ fwd[f].pc \in {"fw_read", "fw_user"} /\ ws[f].open
          /\ fwd[f].peer = id
          /\ Len(signal'[id]) = Len(signal[id]) + 1) =>
             IdGt(signal'[id][Len(signal'[id])].id, fwd[f].peerCursor)]_vars
\* the room records there are: those of Rooms and those createRoom has written
SlugOfRoom(n) == IF n \in Rooms THEN room[n].slug ELSE created[n].slug
RoomsThere == {r \in Rooms : room[r] # NoRoomRec} \cup {n \in NewRooms : created[n] # NoRoomRec}

\* C20: no two room records hold the same slug, the slug of a room record is
\* mapped to that room's id by the slug map, and a slug of the slug map keeps
\* the room id it was given
C20_SlugsUnique ==
    [][/\ \A a, b \in RoomsThere' : (SlugOfRoom(a)' = SlugOfRoom(b)') => (a = b)
       /\ \A a \in RoomsThere' : slugs'[SlugOfRoom(a)'] = a
       /\ \A s \in Slugs : (slugs[s] # NoRoom) => (slugs'[s] = slugs[s])]_vars

\* two createRoom calls have ended with a room each, one of them after it had
\* drawn a slug that was taken
C20_Witness ==
    \E a, b \in NewRooms :
        /\ a # b
        /\ creates[a].pc = "done" /\ creates[b].pc = "done"
        /\ created[a] # NoRoomRec /\ created[b] # NoRoomRec
        /\ creates[b].tries > 0
        /\ slugs[created[a].slug] = a /\ slugs[created[b].slug] = b
\* C21: updateUser fails NotFound when user:<id> is missing at its exists
\* check and Conflict when the key went away after the check; a call that
\* ends in one of the two leaves no user:<id>, and no step of an updateUser
\* call brings a missing user:<id> into being
C21_UpdateUserFails ==
    [][\A k \in Calls :
         (calls[k].op = "updateUser" /\ StepOf(k)) =>
            LET u == calls[k].user IN
            /\ (calls[k].pc = "uu_exists" /\ ~user[u]) =>
                  (calls'[k].pc = "done" /\ calls'[k].res = Fail("NotFound"))
            /\ (calls[k].pc = "uu_get" /\ ~user[u]) =>
                  (calls'[k].pc = "done" /\ calls'[k].res = Fail("Conflict"))
            /\ (calls'[k].pc = "done" /\ calls'[k].res # Ok) =>
                  (/\ ~user'[u]
                   /\ calls'[k].res = IF calls[k].pc = "uu_exists" THEN Fail("NotFound")
                                      ELSE Fail("Conflict"))
            /\ (~user[u]) => (~user'[u])]_vars

\* an updateUser call has ended in Conflict: user:<id> was there at the exists
\* check and expired before the commit
C21_Witness ==
    \E k \in Calls :
        /\ calls[k].op = "updateUser" /\ calls[k].pc = "done"
        /\ calls[k].res = Fail("Conflict")
        /\ ~user[calls[k].user] /\ ttl[calls[k].user] = 0
        /\ name[calls[k].user] # calls[k].name
\* C22: a write refreshes the TTL of the key it touches; for updateUser: when
\* its hset has changed user:<id>, the remaining lifetime of user:<id> is the
\* full retention window
C22_UpdateUserRefreshesTTL ==
    [][\A k \in Calls :
         (/\ calls[k].op = "updateUser" /\ calls[k].pc = "uu_exec"
          /\ calls'[k].pc = "uu_get"
          /\ name'[calls[k].user] = calls[k].name /\ ~calls[k].dirty) =>
             (ttl'[calls[k].user] = UserRetain)]_vars
\* C24: when deleteSession(id) read occupancy[owner] = id at its check, then
\* once it has returned without error no occupancy entry has the value id,
\* whatever another call committed between the check and the commit
C24_OwnEntryRemoved ==
    [][\A k \in Calls :
         (/\ calls[k].op = "deleteSession" /\ calls[k].pc = "ds_del"
          /\ calls[k].current = calls[k].id
          /\ calls'[k].pc = "done" /\ calls'[k].res = Ok) =>
             (\A r \in Rooms : \A u \in Users : conns'[r][u] # calls[k].id)]_vars
\* C26: a socket opened on a session by a user who is not its owner is turned
\* away with Forbidden and the session stays as it was: its record, its
\* occupancy entry and its signal stream are still there
C26_ForbiddenLeavesSession ==
    \A f \in Sockets :
        ws[f].err = "Forbidden" =>
            /\ connection[ws[f].id] = ws[f].session
            /\ conns[ws[f].session.room][ws[f].session.owner] = ws[f].id
\* C27: a forwarder whose verification succeeds enters the relay loop with a
\* peer that is the connection id of an occupancy entry of another user when
\* there is one, and with no peer otherwise, both cursors at the start; its
\* first read returns every entry of the peer's signal stream, and with no
\* peer it returns entries of the room stream only
C27_PeerFromOccupancy ==
    [][\A f \in Sockets :
         LET st == fwd[f]
             others == {u \in Users \ {st.actor} : conns[st.room][u] # NoId}
         IN /\ (st.pc = "fw_verify" /\ fwd'[f].pc = "fw_read") =>
                  (/\ conns[st.room][st.actor] = st.connection
                   /\ fwd'[f].peerCursor = ZeroId /\ fwd'[f].messageCursor = ZeroId
                   /\ IF others = {} THEN fwd'[f].peer = NoId
                      ELSE \E u \in others : fwd'[f].peer = conns[st.room][u])
            /\ (/\ st.pc = "fw_read" /\ fwd'[f] # st /\ storeUp /\ ws[f].open
                /\ st.messageCursor = ZeroId /\ st.peerCursor = ZeroId) =>
                  LET got == Returned(f) IN
                  IF st.peer = NoId
                  THEN \A i \in 1..Len(got) : got[i][1] = "room"
                  ELSE \A n \in 1..Len(signal[st.peer]) :
                          \E i \in 1..Len(got) :
                              got[i] = <<"connection", st.peer, signal[st.peer][n].id>>]_vars

\* the first thing the socket was sent is a signal that was in the stream of
\* the occupant found at verification, no room message being consumed yet
C27_Witness ==
    \E f \in Sockets :
        /\ fwd[f].pc = "fw_read" /\ fwd[f].messageCursor = ZeroId
        /\ fwd[f].peer # NoId /\ fwd[f].peer = conns[fwd[f].room][OwnerOf(fwd[f].room)]
        /\ Len(ws[f].sent) = 1
        /\ ws[f].sent[1].kind = "connection" /\ ws[f].sent[1].src = fwd[f].peer
        /\ ws[f].sent[1].id = signal[fwd[f].peer][1].id
\* a step in which forwarder f handles entries of a read
Consuming(f) == fwd[f].pc \in {"fw_read", "fw_user"} /\ storeUp /\ fwd'[f] # fwd[f]

\* the join, leave and chat messages forwarder f has consumed in this step, in
\* the order of the read: the entries it had to handle less those still waiting
ConsumedMessages(f) ==
    LET had == IF fwd[f].pc = "fw_read" THEN XRead(fwd[f]) ELSE fwd[f].batch
        done == SubSeq(had, 1, Len(had) - Len(fwd'[f].batch))
        datas == [i \in 1..Len(done) |-> Parse(FieldOf(done[i].fields, "data"))]
    IN SelectSeq(datas, LAMBDA d : d.type \in {"join", "leave", "chat"})

\* C28: when the last message a forwarder has consumed is a join of another
\* user, its peer is the session of that join and its next read asks for the
\* entries of that session's signal stream; joins of the actor itself leave
\* the peer as it was
C28_JoinSetsPeer ==
    [][\A f \in Sockets :
         Consuming(f) =>
            LET c == ConsumedMessages(f)
                st == fwd[f]
            IN /\ (c # <<>> /\ c[Len(c)].type = "join" /\ c[Len(c)].user # st.actor) =>
                     LET id == c[Len(c)].session IN
                     /\ fwd'[f].peer = id
                     /\ (fwd'[f].pc = "fw_read") =>
                           (\A n \in 1..Len(signal'[id]) :
                               IdGt(signal'[id][n].id, fwd'[f].peerCursor) =>
                                  (\E i \in 1..Len(XRead(fwd[f])') :
                                      /\ XRead(fwd[f])'[i].kind = "connection"
                                      /\ XRead(fwd[f])'[i].src = id
                                      /\ XRead(fwd[f])'[i].id = signal'[id][n].id))
               /\ (\A i \in 1..Len(c) : c[i].type = "join" /\ c[i].user = st.actor) =>
                     (fwd'[f].peer = st.peer)]_vars

\* a forwarder that has lost its peer by a leave has consumed the join of
\* another user's session and its own join and has that session as its peer,
\* a signal waiting in that session's stream
C28_Witness ==
    \E f \in Sockets :
        /\ fwd[f].pc = "fw_read" /\ fwd[f].peer # NoId
        /\ signal[fwd[f].peer] # <<>>
        /\ \E i, j, n \in 1..Len(messages[fwd[f].room]) :
              LET di == Parse(FieldOf(messages[fwd[f].room][i].fields, "data"))
                  dj == Parse(FieldOf(messages[fwd[f].room][j].fields, "data"))
                  dn == Parse(FieldOf(messages[fwd[f].room][n].fields, "data"))
              IN /\ i < j /\ n # j
                 /\ di.type = "leave" /\ di.session = fwd[f].peer
                 /\ dj.type = "join" /\ dj.session = fwd[f].peer /\ dj.user # fwd[f].actor
                 /\ dn.type = "join" /\ dn.user = fwd[f].actor
                 /\ fwd[f].messageCursor =
                       messages[fwd[f].room][Len(messages[fwd[f].room])].id
\* C29: a forwarder that consumes the leave of the session that is its peer
\* has no peer afterwards, and a read it makes without a peer returns entries
\* of the room stream only; leaves of other sessions and chats leave the peer
\* as it was
C29_LeaveDropsPeer ==
    [][\A f \in Sockets :
         Consuming(f) =>
            LET c == ConsumedMessages(f)
                st == fwd[f]
            IN /\ (/\ c # <<>> /\ st.peer # NoId
                   /\ c[Len(c)].type = "leave" /\ c[Len(c)].session = st.peer
                   /\ \A i \in 1..Len(c) : c[i].type # "join") =>
                     (fwd'[f].peer = NoId)
               /\ (\A i \in 1..Len(c) :
                      \/ c[i].type = "chat"
                      \/ c[i].type = "leave" /\ c[i].session # st.peer) =>
                     (fwd'[f].peer = st.peer)
               /\ (st.pc = "fw_read" /\ st.peer = NoId /\ ws[f].open) =>
                     (\A i \in 1..Len(Returned(f)) : Returned(f)[i][1] = "room")]_vars

\* the forwarder has consumed a chat and then the leave of its peer, the last
\* entry of the room stream: it reads on without a peer, and the signal in the
\* stream of the session that has left was not sent
C29_Witness ==
    \E f \in Sockets :
        /\ fwd[f].pc = "fw_read" /\ fwd[f].peer = NoId
        /\ LET m == messages[fwd[f].room] IN
              /\ Len(m) >= 2
              /\ fwd[f].messageCursor = m[Len(m)].id
              /\ Parse(FieldOf(m[Len(m)].fields, "data")).type = "leave"
              /\ Parse(FieldOf(m[Len(m)].fields, "data")).user # fwd[f].actor
              /\ signal[Parse(FieldOf(m[Len(m)].fields, "data")).session] # <<>>
              /\ \E i \in 1..(Len(m) - 1) : Parse(FieldOf(m[i].fields, "data")).type = "chat"
        /\ \A i \in 1..Len(ws[f].sent) : ws[f].sent[i].kind = "room"
\* the room stream of forwarder f holds a join of session id
JoinInStream(f, id) ==
    \E n \in 1..Len(messages[fwd[f].room]) :
        LET d == Parse(FieldOf(messages[fwd[f].room][n].fields, "data")) IN
        d.type = "join" /\ d.session = id

\* C25: a relaying forwarder that has consumed every entry of the room stream
\* has as its peer the connection id of the occupancy entry of another user
\* whose join is in the stream, whatever joins and leaves of sessions that are
\* gone it has replayed
C25_PeerIsOccupant ==
    \A f \in Sockets :
        (/\ fwd[f].pc = "fw_read" /\ ws[f].open
         /\ messages[fwd[f].room] # <<>>
         /\ fwd[f].messageCursor = messages[fwd[f].room][Len(messages[fwd[f].room])].id) =>
            \A u \in Users \ {fwd[f].actor} :
                LET id == conns[fwd[f].room][u] IN
                (id # NoId /\ JoinInStream(f, id)) => (fwd[f].peer = id)
\* the room messages socket f has been sent in this step
NewMessages(f) == SelectSeq(NewlySent(f), LAMBDA m : m.kind = "room")

\* no room message was sent to socket f twice
SentOnce(f) ==
    \A i, j \in 1..Len(ws[f].sent) :
        (i # j /\ ws[f].sent[i].kind = "room" /\ ws[f].sent[j].kind = "room") =>
            (ws[f].sent[i].id # ws[f].sent[j].id)

\* C30 as stated: every join, leave and chat a forwarder consumes while its
\* destination is open is sent once, with a user {id, name} in place of the
\* user id and the other fields as stored
C30_EveryMessageSent ==
    [][\A f \in Sockets :
         (Consuming(f) /\ ws[f].open) =>
            LET c == ConsumedMessages(f)
                new == NewMessages(f)
            IN /\ Len(new) = Len(c)
               /\ \A i \in 1..Len(new) :
                     /\ new[i].data.type = c[i].type /\ new[i].data.session = c[i].session
                     /\ new[i].data.user.id = c[i].user
               /\ SentOnce(f)']_vars

\* C30: of the joins, leaves and chats a forwarder consumes while its
\* destination is open, those whose user it resolves (from its cache, filled
\* from the store at the first miss) are sent once each, in the order
\* consumed, with the resolved user {id, name} in place of the user id and the
\* other fields as stored; those whose user does not resolve are not sent
C30_ResolvedMessageSent ==
    [][\A f \in Sockets :
         (Consuming(f) /\ ws[f].open) =>
            LET c == SelectSeq(ConsumedMessages(f),
                               LAMBDA d : fwd'[f].users[d.user] # "null")
                new == NewMessages(f)
            IN /\ Len(new) = Len(c)
               /\ \A i \in 1..Len(new) :
                     /\ fwd'[f].users[c[i].user] \in Names
                     /\ new[i].data =
                           [type |-> c[i].type, session |-> c[i].session,
                            user |-> [id |-> c[i].user, name |-> fwd'[f].users[c[i].user]]]
               /\ SentOnce(f)']_vars

\* the forwarder has consumed a message of a user whose record was gone when
\* it was looked up, which was not sent, and a message of a user it resolved,
\* which was
C30_Witness ==
    \E f \in Sockets :
        /\ fwd[f].pc = "fw_read" /\ ws[f].open
        /\ messages[fwd[f].room] # <<>>
        /\ fwd[f].messageCursor = messages[fwd[f].room][Len(messages[fwd[f].room])].id
        /\ \E u \in Users : fwd[f].users[u] = "null"
        /\ \E i \in 1..Len(ws[f].sent) :
              /\ ws[f].sent[i].kind = "room"
              /\ ws[f].sent[i].data.user = UserObject(ws[f].user, "ann")
        /\ Len(SelectSeq(ws[f].sent, LAMBDA m : m.kind = "room")) < Len(messages[fwd[f].room])
\* C23: updateUser, createRoom, createSession and the session socket answer a
\* request that has no actor with Unauthorized and nothing in the store or in
\* the core changes with that answer; every call and every socket setup that
\* is under way was started for a user
C23_NoActorNoCall ==
    [][/\ (resp' # resp) =>
            (/\ \A e \in Endpoints : resp'[e] \in {resp[e], "Unauthorized"}
             /\ UNCHANGED <<sessionVars, roomVars, name, ttl, messages, clock, ws, fwd>>)
       /\ \A k \in Calls : (calls'[k].op \in {"updateUser", "createSession"}) =>
                                (calls'[k].user \in Users)
       /\ \A n \in NewRooms : (creates'[n].pc # "idle") => (creates'[n].owner \in Users)
       /\ \A f \in Sockets : (ws'[f].pc # "idle") => (ws'[f].user \in Users)]_vars

\* every endpoint has turned a request without an actor away, while calls made
\* for users have run: a name was changed, a room and a session were created
C23_Witness ==
    /\ \A e \in Endpoints : resp[e] = "Unauthorized"
    /\ \E u \in Users : name[u] = "bea"
    /\ \E n \in NewRooms : created[n] # NoRoomRec
    /\ \E c \in ConnIds : connection[c] # NoConnRec
    /\ \E f \in Sockets : ws[f].pc # "idle"
\* C31: while no key has expired, every entry u -> c of a room's occupancy map
\* points at an existing connection record, whose room is that room and whose
\* owner is u
C31_OccupancyPointsAtRecord ==
    (expired.count = 0) =>
        \A r \in Rooms : \A u \in Users :
            (conns[r][u] # NoId) => (connection[conns[r][u]] = [room |-> r, owner |-> u])
\* the message a step has appended to the stream of room r
Appended(r) == Parse(FieldOf(messages'[r][Len(messages'[r])].fields, "data"))

\* C32: the entries of a session in the room stream begin with its join and
\* end with its leave; in particular no join of a session is appended to the
\* room stream after deleteSession for that session has completed
C32_NoJoinAfterDelete ==
    [][\A r \in Rooms :
         (Len(messages'[r]) = Len(messages[r]) + 1 /\ Appended(r).type = "join") =>
            (Appended(r).session \notin deleted)]_vars
\* C33: an updateUser call that returns a user without error has committed
\* its write of the name, whatever happened to the user key between its watch
\* and its commit: the user it returns (the record as stored then) carries the
\* requested name, or at the least the call's commit was not aborted
C33_SuccessMeansCommitted ==
    [][\A k \in Calls :
         (/\ calls[k].op = "updateUser" /\ calls[k].pc = "uu_get"
          /\ calls'[k].pc = "done" /\ calls'[k].res = Ok) =>
             (name[calls[k].user] = calls[k].name \/ calls[k].reply = "ok")]_vars
\* C34: when the occupancy entry of a relaying forwarder's actor is no longer
\* the forwarder's connection id, the forwarder's destination is closed in the
\* end (and with it the forwarder stops sending)
C34_UnlinkedForwarderStops ==
    \A f \in Sockets :
        (/\ fwd[f].pc \in {"fw_read", "fw_user"} /\ ws[f].open
         /\ conns[fwd[f].room][fwd[f].actor] # fwd[f].connection) ~> (~ws[f].open)
\* C35: a forwarder in its relay loop whose destination is no longer open
\* makes at most one further read (no read follows a read that returned with
\* the destination closed) and, the server's continuations being run, it ends
\* with its connection released
C35_ClosedForwarderEnds ==
    /\ [][\A f \in Sockets :
            (fwd[f].pc \in {"fw_read", "fw_user"} /\ ~ws[f].open /\ fwd'[f] # fwd[f]) =>
               (fwd'[f].pc \in {"fw_user", "fw_release"})]_vars
    /\ \A f \in Sockets :
          (fwd[f].pc \in {"fw_read", "fw_user"} /\ ~ws[f].open) ~>
             (fwd[f].pc = "fw_done" /\ ~fwd[f].held /\ fwd[f].released = 1)

\* the client closed the socket while its forwarder was relaying; the
\* forwarder has ended without an error and has released its connection
C35_Witness ==
    \E f \in Sockets :
        /\ fwd[f].pc = "fw_done" /\ fwd[f].result = "ok" /\ fwd[f].failed = "none"
        /\ ~fwd[f].held /\ fwd[f].released = 1
        /\ ~ws[f].open /\ ws[f].err = "none"
        /\ fwd[f].messageCursor # ZeroId /\ ws[f].sent # <<>>
        /\ conns[fwd[f].room][fwd[f].actor] = fwd[f].connection
\* the inputs among the frames received: the parsed text frames that are well
\* formed, in arrival order
RECURSIVE InputsOf(_)
InputsOf(frames) ==
    IF frames = <<>> THEN <<>>
    ELSE IF IsString(Head(frames)) /\ WellFormed(Parse(Head(frames)))
         THEN <<Parse(Head(frames))>> \o InputsOf(Tail(frames))
         ELSE InputsOf(Tail(frames))

\* the chat entries of session id in a room stream, the entries of a signal stream
ChatsOf(r, id) ==
    {i \in 1..Len(messages[r]) :
        /\ Parse(FieldOf(messages[r][i].fields, "data")).type = "chat"
        /\ Parse(FieldOf(messages[r][i].fields, "data")).session = id}

\* getSession has returned the session to setup and its owner is the socket's user
SessionConfirmed(w) ==
    /\ w.pc \in {"su_room", "ready"}
    /\ w.session # NoConnRec /\ w.session.owner = w.user

\* C36: the inputs received before setup is through are held in the queue, in
\* arrival order, and nothing of the socket has been delivered or written;
\* once setup is through every input received so far has been delivered
\* exactly once, in arrival order (the queued ones before the later ones);
\* a chat or signal of the socket is in the store only after getSession has
\* confirmed the session and its owner, and never when setup failed
C36_QueuedInputsDelivered ==
    \A f \in Sockets :
        LET w == ws[f] IN
        /\ w.queueing =>
               /\ w.queue = InputsOf(w.received)
               /\ w.delivered = <<>> /\ w.out = <<>>
        /\ ~w.queueing =>
               /\ w.pc = "ready"
               /\ w.queue = <<>>
               /\ w.delivered = InputsOf(w.received)
        /\ (w.pc = "su_failed") => w.queueing
        /\ (w.pc # "idle" /\ (w.out # <<>> \/ (\E r \in Rooms : ChatsOf(r, w.id) # {})
                               \/ signal[w.id] # <<>>)) =>
               (SessionConfirmed(w) /\ w.pc = "ready")

\* two inputs arrived before setup was through and one after it: the three
\* have been delivered in arrival order and the first chat is in the stream
C36_Witness ==
    \E f \in Sockets :
        /\ ws[f].pc = "ready" /\ Len(ws[f].delivered) = 3
        /\ ws[f].delivered = InputsOf(ws[f].received)
        /\ ws[f].delivered[1].type = "chat" /\ ws[f].delivered[2].type = "ice"
        /\ ws[f].delivered[3].type = "chat"
        /\ ws[f].out = <<ws[f].delivered[3]>>
        /\ ChatsOf(ws[f].room, ws[f].id) # {} /\ signal[ws[f].id] # <<>>
\* C37: the peer of a forwarder is never the forwarder's own connection and
\* never a connection of the forwarder's own actor, and no signal the
\* forwarder has sent to its destination came from the signal stream of its
\* own connection
C37_PeerIsAnotherUsers ==
    \A f \in Sockets :
        (fwd[f].pc # "idle") =>
           /\ (fwd[f].peer # NoId) =>
                  /\ fwd[f].peer # fwd[f].connection
                  /\ (fwd[f].peer \in ConnIds /\ connection[fwd[f].peer] # NoConnRec) =>
                         (connection[fwd[f].peer].owner # fwd[f].actor)
           /\ \A i \in 1..Len(ws[f].sent) :
                  (ws[f].sent[i].kind = "connection") => (ws[f].sent[i].src # fwd[f].connection)

\* the owner's forwarder has relayed its own join, holds the guest's session
\* as its peer and reads on while a signal waits in the stream of its own
\* connection
C37_Witness ==
    \E f \in Sockets :
        /\ fwd[f].pc = "fw_read" /\ fwd[f].peer # NoId
        /\ signal[fwd[f].connection] # <<>>
        /\ fwd[f].messageCursor # ZeroId
        /\ \E i \in 1..Len(ws[f].sent) :
              /\ ws[f].sent[i].kind = "room" /\ ws[f].sent[i].data.type = "join"
              /\ ws[f].sent[i].data.session = fwd[f].connection
        /\ fwd[f].messageCursor = messages[fwd[f].room][Len(messages[fwd[f].room])].id
\* C38: allocateSlug makes no fifth attempt; a createRoom call whose four
\* attempts all met a taken slug ends with a plain Error, and that attempt
\* leaves the slug map as it was and there is no room record of the call; an
\* attempt that succeeds adds one entry to the slug map, from a slug that had
\* none to the new room's id, and changes no other entry
C38_SlugAllocation ==
    [][\A n \in NewRooms :
         (creates[n].pc = "cr_slug" /\ creates'[n] # creates[n]) =>
            /\ creates[n].tries < 4
            /\ (creates'[n].pc = "failed") =>
                  /\ creates'[n].tries = 4 /\ creates'[n].err = "Error"
                  /\ slugs' = slugs
                  /\ created'[n] = NoRoomRec
                  /\ \A s \in Slugs : slugs'[s] # n
            /\ (creates'[n].pc = "cr_slug") => (slugs' = slugs /\ creates'[n].tries = creates[n].tries + 1)
            /\ (creates'[n].pc = "cr_hmset") =>
                  \E s \in Slugs :
                     /\ slugs[s] = NoRoom /\ slugs'[s] = n /\ creates'[n].slug = s
                     /\ \A t \in Slugs \ {s} : slugs'[t] = slugs[t]]_vars

\* one createRoom call has ended with a room after a taken slug, another has
\* failed after four taken slugs and has left no room record and no slug
C38_Witness ==
    \E a, b \in NewRooms :
        /\ creates[a].pc = "done" /\ created[a] # NoRoomRec /\ slugs[created[a].slug] = a
        /\ creates[a].tries > 0
        /\ creates[b].pc = "failed" /\ creates[b].err = "Error" /\ creates[b].tries = 4
        /\ created[b] = NoRoomRec /\ \A s \in Slugs : slugs[s] # b

\* C39: createRoom fails with NotFound when user:<owner> is missing at its
\* getUser, and such a call has no slug and no room record; a room record
\* createRoom has written holds the owner the call was made for
C39_CreateRoomOwner ==
    /\ [][\A n \in NewRooms : \A u \in Creators :
            (creates[n].pc = "idle" /\ creates'[n].pc # "idle" /\ creates'[n].owner = u) =>
               IF user[u] THEN creates'[n].pc = "cr_slug"
               ELSE creates'[n].pc = "failed" /\ creates'[n].err = "NotFound"]_vars
    /\ [](\A n \in NewRooms :
            /\ (creates[n].err = "NotFound") =>
                  /\ creates[n].pc = "failed" /\ creates[n].tries = 0
                  /\ created[n] = NoRoomRec
                  /\ \A s \in Slugs : slugs[s] # n
            /\ (created[n] # NoRoomRec) => (created[n].owner = creates[n].owner))

\* a createRoom call for a user whose key has expired has failed with
\* NotFound while a call for a registered user has written its room
C39_Witness ==
    \E a, b \in NewRooms :
        /\ creates[a].pc = "failed" /\ creates[a].err = "NotFound" /\ ~user[creates[a].owner]
        /\ creates[b].pc = "done" /\ created[b] # NoRoomRec
        /\ created[b].owner = creates[b].owner /\ user[created[b].owner]
\* createRoom has returned room n and room:<n> has not expired
RoomLive(n) == n \in NewRooms /\ creates[n].pc = "done" /\ created[n] # NoRoomRec

\* C40: a getRoom by id, and a getRoom by slug at its hgetall, returns the
\* room createRoom returned when that room's record is there, and null when
\* there is no record; a getRoom by the slug of a room createRoom returned
\* resolves the slug to that room's id, and a getRoom by a slug without an
\* entry returns null
C40_GetRoomBySlugOrId ==
    [][\A k \in Calls :
         (calls'[k].op = "getRoom" /\ calls'[k] # calls[k]) =>
            LET g == calls'[k].get IN
            /\ (calls[k].pc # "gr_hgetall" /\ g.by = "slug") =>
                  /\ (slugs[g.key] = NoRoom) => (calls'[k].pc = "done" /\ g.room = NullRoom)
                  /\ \A n \in NewRooms :
                        (RoomLive(n) /\ RoomReturned(n).slug = g.key) =>
                           (calls'[k].pc = "gr_hgetall" /\ g.id = RoomReturned(n).id)
            /\ (calls[k].pc = "gr_hgetall" \/ g.by = "id") =>
                  /\ calls'[k].pc = "done"
                  /\ RoomLive(g.id) => (g.room = RoomReturned(g.id))
                  /\ (RoomHash(g.id) = NoRoomRec) => (g.room = NullRoom)]_vars

\* both lookups of a room made at the second tick of the clock have returned
\* it, one by its id and one by its slug
C40_Witness ==
    \E n \in NewRooms :
        /\ RoomLive(n) /\ creates[n].at > 1
        /\ calls[1].op = "getRoom" /\ calls[1].pc = "done" /\ calls[1].get.key = n
        /\ calls[2].op = "getRoom" /\ calls[2].pc = "done"
        /\ calls[2].get.key = creates[n].slug
        /\ calls[1].get.room = RoomReturned(n) /\ calls[2].get.room = calls[1].get.room
====
